---- MODULE Spec2Model ----
(***************************************************************************)
(* A model of procgen_companion: the variation-expansion engine            *)
(* (handlers.py), the condition resolver and the generate driver (core.py).*)
(*                                                                         *)
(* Nodes are records carrying the name of their Python class in `cls`.     *)
(* Strings are sequences of tokens, so that `variable.split(".")` is a     *)
(* computation.  Mutable objects carry an allocation stamp `obj`.          *)
(***************************************************************************)
EXTENDS Integers, Sequences, FiniteSets, TLC

VARIABLES
    node,       \* the node an engine operation is applied to
    res,        \* the result of the last engine operation on `node`
    template,   \* generate: the template document (an ArenaConfig)
    mode,       \* generate: "sample" | "exhaustive"
    amount,     \* generate: the requested number of variations
    pc,         \* generate: position of the generator
    pulled,     \* generate: how many variations the inner generator produced
    full_iterator, \* generate: what is left of iterate_variations_recursive(template)
    variation,  \* generate: the variation being resolved
    meta,       \* generate: the labels of the variation being resolved
    todo,       \* generate: what walk_tree has still to visit; then the rules applied
    yielded,    \* generate: the (variation, meta) pairs handed to the consumer
    template_meta, \* generate: the proc_labels rules taken from the template
    last,       \* generate: what the last step of the deferred pass did (history)
    exc,        \* generate: the exception that left the generator, or NoExc
    sessions,   \* two runs of the program: seed, state of `random`, results so far
    frames,     \* one iteration of a structural node: the generators of util.product
    batch,      \* sample_bulk: the templates, the one being sampled, log.csv, the error.txt files
    earlier     \* generate: the generators made earlier on this template object, as left

vars == <<node, res, template, mode, amount, pc, pulled, full_iterator,
          variation, meta, todo, yielded, template_meta, last, exc, sessions, frames, batch, earlier>>

opVars == <<node, res>>
genVars == <<template, mode, amount, pc, pulled, full_iterator,
             variation, meta, todo, yielded, template_meta, last, exc>>
seedVars == <<sessions>>
lazyVars == <<frames>>
bulkVars == <<batch>>
againVars == <<earlier>>

----------------------------------------------------------------------------
(* Bounds *)

MaxOptions == 2     \* options of a !ProcList, scales of a !ProcVector3Scaled
MaxAmount == 2      \* `amount` of !ProcRepeatChoice / !ProcRestrictCombinations
MaxGenerate == 2    \* `amount` passed to generate
MaxChildren == 2    \* children of a structural node

----------------------------------------------------------------------------
(* Python values *)

None == [cls |-> "NoneType"]
Num(n) == [cls |-> "int", v |-> n]
Str(toks) == [cls |-> "str", v |-> toks]
TemplateObj == <<0>>
FreshObj == <<1>>
List(items) == [cls |-> "list", obj |-> TemplateObj, items |-> items]
Dict(keys, vals) == [cls |-> "dict", obj |-> TemplateObj, keys |-> keys, vals |-> vals]
\* An exception travelling as a value
Exc(type, label) == [cls |-> "Exception", type |-> type, user_label |-> label]
IsExc(x) == x.cls = "Exception"

\* errors.py: ProcGenError is the base of the user-facing errors
IsProcGenError(e) == IsExc(e) /\ e.type \in {"NodeAnnotatedProcGenError", "BaseProcGenError",
                                           "SourceAnnotatedProcGenError"}

NoExc == None

\* meta.py: a Meta object, its constructor (which takes no argument) and add_label
MetaRec(labels) == [cls |-> "Meta", labels |-> labels]
Meta_init(kwargs) == IF kwargs = {} THEN MetaRec(<<>>) ELSE Exc("TypeError", None)
add_label(m, label) == IF label # None THEN MetaRec(Append(m.labels, label)) ELSE m

\* A (value, meta) pair; a raised exception travels as the value
Pair(value, m) == [value |-> value, meta |-> m]
Raise(e) == Pair(e, MetaRec(<<>>))
\* What pulling an iterator to its end gives: the items yielded, then the
\* exception that ended it (None: it ended normally)
Run(items, e) == [items |-> items, exc |-> e]

----------------------------------------------------------------------------
(* tags.py: the custom tags.  A CustomMappingTag instance is its __dict__   *)
(* (keys, vals), in insertion order.                                        *)

Tag(cls, keys, vals) == [cls |-> cls, obj |-> TemplateObj, keys |-> keys, vals |-> vals]

\* Vector3.__init__(x, y, z): any other keyword is a TypeError, a list value a FaultyType
Vector3_init(keys, vals) ==
    IF {keys[i] : i \in DOMAIN keys} # {"x", "y", "z"} \/ Len(keys) # 3
      THEN Exc("TypeError", None)
    ELSE IF \E i \in DOMAIN vals : vals[i].cls = "list"
      THEN Exc("NodeAnnotatedProcGenError", "FaultyType")
    ELSE [cls |-> "Vector3", obj |-> FreshObj, keys |-> keys, vals |-> vals]

\* type(node)(**kwargs) for a CustomMappingTag: CustomMappingTag.__init__ or Vector3.__init__
NewTag(cls, keys, vals) ==
    IF cls = "Vector3" THEN Vector3_init(keys, vals)
    ELSE [cls |-> cls, obj |-> FreshObj, keys |-> keys, vals |-> vals]

Vector3(x, y, z) == Tag("Vector3", <<"x", "y", "z">>, <<x, y, z>>)
RGB(r, g, b) == Tag("RGB", <<"r", "g", "b">>, <<r, g, b>>)

ProcList(options) == [cls |-> "ProcList", obj |-> TemplateObj, options |-> options]
\* new_labelled_option: each option is a dict {label, value}
new_labelled_option(label, value) == Dict(<<"label", "value">>, <<label, value>>)
ProcListLabelled(options) == [cls |-> "ProcListLabelled", obj |-> TemplateObj, options |-> options]
ProcColor(n) == [cls |-> "ProcColor", obj |-> TemplateObj, amount |-> n]
ProcVector3Scaled(base, scales, labels) ==
    [cls |-> "ProcVector3Scaled", obj |-> TemplateObj, base |-> base, scales |-> scales, labels |-> labels]
ProcRepeatChoice(n, value) ==
    [cls |-> "ProcRepeatChoice", obj |-> TemplateObj, amount |-> n, value |-> value]
ProcRestrictCombinations(n, item) ==
    [cls |-> "ProcRestrictCombinations", obj |-> TemplateObj, amount |-> n, item |-> item]
ProcIf(value, cases, then, default, labels, default_label) ==
    [cls |-> "ProcIf", obj |-> TemplateObj, value |-> value, cases |-> cases, then |-> then,
     default |-> default, labels |-> labels, default_label |-> default_label]
ProcIfLabels(value, cases, labels, default) ==
    [cls |-> "ProcIfLabels", obj |-> TemplateObj, value |-> value, cases |-> cases,
     labels |-> labels, default |-> default]
Range(lo, hi) == [cls |-> "Range", obj |-> TemplateObj, min |-> lo, max |-> hi]

\* util.py: MutablePlaceholder(proc_if); proc_if captures the !ProcIf node
MutablePlaceholder(proc_if) ==
    [cls |-> "MutablePlaceholder", obj |-> FreshObj, proc_if |-> proc_if, value |-> None, label |-> None]
\* every placeholder taken as filled
is_filled_always(ph) == TRUE
\* no placeholder taken as filled
is_filled_never(ph) == FALSE
is_filled(ph) == ph.value # None

\* The classes each class is an instance of (isinstance)
Bases(cls) ==
    CASE cls \in {"ArenaConfig"} ->
           {cls, "CustomMappingTag", "CustomTag", "AnimalAITag", "WithId", "WithTemplateMeta"}
      [] cls \in {"Arena", "Item", "Vector3", "RGB"} ->
           {cls, "CustomMappingTag", "CustomTag", "AnimalAITag", "WithId"}
      [] cls \in {"ProcList", "ProcListLabelled"} ->
           {cls, "CustomSequenceTag", "CustomTag", "ProcGenTag"}
      [] cls = "ProcColor" -> {cls, "CustomScalarTag", "CustomTag", "ProcGenTag"}
      [] cls \in {"ProcVector3Scaled", "ProcRepeatChoice", "ProcRestrictCombinations", "ProcIf"} ->
           {cls, "CustomMappingTag", "CustomTag", "ProcGenTag"}
      [] cls = "ProcIfLabels" -> {cls, "CustomMappingTag", "CustomTag"}
      [] cls = "Range" -> {cls, "CustomSequenceTag", "CustomTag"}
      [] cls = "bool" -> {"bool", "int"}
      [] OTHER -> {cls}
isinstance(x, cls) == cls \in Bases(x.cls)

\* copy.deepcopy: the same structure out of new objects (scalars carry no stamp)
SeqFields == {"items", "vals", "options", "cases", "then"}
NodeFields == {"value", "item", "base", "default", "labels", "default_label", "proc_if"}
RECURSIVE Restamp(_, _)
Restamp(v, s) ==
    [f \in DOMAIN v |->
        IF f = "obj" THEN s
        ELSE IF f \in SeqFields THEN [i \in DOMAIN v[f] |-> Restamp(v[f][i], s)]
        ELSE IF f \in NodeFields /\ f # "proc_if" THEN Restamp(v[f], s)
        ELSE v[f]]
deepcopy(v) == Restamp(v, FreshObj)
\* The i-th of several deepcopy calls on one value: each call allocates its own objects
deepcopy_nth(v, i) == Restamp(v, FreshObj \o <<i>>)
\* The objects of v as allocated in the k-th run of the code that allocates them
RECURSIVE Mark(_, _)
Mark(v, k) ==
    [f \in DOMAIN v |->
        IF f = "obj" THEN v.obj \o <<k>>
        ELSE IF f \in SeqFields THEN [i \in DOMAIN v[f] |-> Mark(v[f][i], k)]
        ELSE IF f \in NodeFields /\ f # "proc_if" THEN Mark(v[f], k)
        ELSE v[f]]
\* Structural equality (==), whatever the objects
Same(a, b) == Restamp(a, <<>>) = Restamp(b, <<>>)

----------------------------------------------------------------------------
(* handlers.py: the registry *)

HANDLERS == << "PlainSequence", "PlainMapping", "PlainScalar", "AnimalAIScalar",
               "AnimalAIMapping", "AnimalAISequence", "ProcList", "ProcListLabelled",
               "ProcColor", "ProcVector3Scaled", "ProcRepeatChoice",
               "ProcRestrictCombinations", "ProcIf", "ProcIfLabels" >>

can_handle(handler, n) ==
    CASE handler = "PlainSequence" -> isinstance(n, "list")
      [] handler = "PlainMapping" -> isinstance(n, "dict")
      [] handler = "PlainScalar" ->
           isinstance(n, "str") \/ isinstance(n, "int") \/ isinstance(n, "float") \/ isinstance(n, "bool")
      [] handler = "AnimalAIScalar" -> isinstance(n, "AnimalAITag") /\ isinstance(n, "CustomScalarTag")
      [] handler = "AnimalAIMapping" -> isinstance(n, "AnimalAITag") /\ isinstance(n, "CustomMappingTag")
      [] handler = "AnimalAISequence" -> isinstance(n, "AnimalAITag") /\ isinstance(n, "CustomSequenceTag")
      [] OTHER -> isinstance(n, handler)   \* the !Proc handlers test their own tag class

NoHandler == "ValueError"

\* The first handler of HANDLERS[i..] that accepts n; NoHandler: the loop fell through
RECURSIVE first_handler(_, _)
first_handler(n, i) ==
    IF i > Len(HANDLERS) THEN NoHandler
    ELSE IF can_handle(HANDLERS[i], n) THEN HANDLERS[i]
    ELSE first_handler(n, i + 1)

get_node_handler(n) == first_handler(n, 1)

StaticNodeHandlers == {"PlainSequence", "PlainMapping", "PlainScalar",
                       "AnimalAISequence", "AnimalAIMapping", "AnimalAIScalar"}
ProcGenNodeHandlers == {"ProcList", "ProcListLabelled", "ProcColor", "ProcVector3Scaled",
                        "ProcRepeatChoice", "ProcRestrictCombinations", "ProcIf", "ProcIfLabels"}

\* handler.children(node)
children(handler, n) ==
    CASE handler = "PlainSequence" -> n.items
      [] handler \in {"PlainMapping", "AnimalAIMapping"} -> n.vals
      [] handler \in {"PlainScalar", "AnimalAIScalar"} -> <<>>
      [] handler = "AnimalAISequence" -> n.items
      [] handler \in {"ProcList", "ProcListLabelled"} -> n.options
      [] handler = "ProcColor" -> << Num(n.amount) >>
      [] handler = "ProcVector3Scaled" ->
           << List(IF n.base # None THEN <<n.base>> ELSE <<>>) >>
             \o [i \in DOMAIN n.scales |-> Num(n.scales[i])]
      [] handler = "ProcRepeatChoice" -> << Num(n.amount), n.value >>
      [] handler = "ProcRestrictCombinations" -> << Num(n.amount), n.item >>
      [] handler = "ProcIf" ->
           << n.value, List(n.cases), List(n.then),
              List(IF n.default # None THEN <<n.default>> ELSE <<>>) >>
      [] handler = "ProcIfLabels" ->
           << n.value, List(n.cases), List(IF n.default # None THEN <<n.default>> ELSE <<>>) >>

----------------------------------------------------------------------------
(* count *)

\* count raised (no handler for a node)
CountError == 0 - 1

RECURSIVE SeqProduct(_)
SeqProduct(ns) == IF ns = <<>> THEN 1 ELSE Head(ns) * SeqProduct(Tail(ns))

RECURSIVE count_recursive(_)

\* the counts of the children added up
Util_count_sum(childs) ==
    LET child_counts == [i \in DOMAIN childs |-> count_recursive(childs[i])]
        RECURSIVE SeqSum(_)
        SeqSum(ns) == IF ns = <<>> THEN 0 ELSE Head(ns) + SeqSum(Tail(ns))
    IN IF \E i \in DOMAIN childs : child_counts[i] = CountError
         THEN CountError ELSE SeqSum(child_counts)
\* Util.count: functools.reduce(operator.mul, [count(child) ...], 1)
Util_count(childs) ==
    LET child_counts == [i \in DOMAIN childs |-> count_recursive(childs[i])]
    IN IF \E i \in DOMAIN childs : child_counts[i] = CountError
         THEN CountError ELSE SeqProduct(child_counts)

ProcColor_count(n) == n.amount

ProcRepeatChoice_count(n) == count_recursive(n.value)

ProcRestrictCombinations_count(n) == n.amount

handler_count(handler, n) ==
    CASE handler \in {"PlainSequence", "PlainMapping", "AnimalAISequence", "AnimalAIMapping"} ->
           Util_count(children(handler, n))
      [] handler \in {"PlainScalar", "AnimalAIScalar"} -> 1
      [] handler \in {"ProcList", "ProcListLabelled"} -> Len(n.options)
      [] handler = "ProcColor" -> ProcColor_count(n)
      [] handler = "ProcVector3Scaled" -> Len(n.scales)
      [] handler = "ProcRepeatChoice" -> ProcRepeatChoice_count(n)
      [] handler = "ProcRestrictCombinations" -> ProcRestrictCombinations_count(n)
      [] handler \in {"ProcIf", "ProcIfLabels"} -> 1

count_recursive(n) ==
    LET handler == get_node_handler(n)
    IN IF handler = NoHandler THEN CountError ELSE handler_count(handler, n)

----------------------------------------------------------------------------
(* core.py: explain_count_recursive.  A string is the sequence of its pieces. *)

Digits == << "0", "1", "2", "3", "4", "5", "6", "7", "8", "9" >>

\* str(n) for n >= 0, as digit tokens
RECURSIVE str_int(_)
str_int(n) == IF n < 10 THEN <<Digits[n + 1]>> ELSE str_int(n \div 10) \o <<Digits[(n % 10) + 1]>>

\* node.tag
tag_of(n) == IF n.cls = "Range" THEN "R" ELSE n.cls

\* " x ".join(explanations), empty ones included
RECURSIVE join_all(_)
join_all(explanations) ==
    IF explanations = <<>> THEN <<>>
    ELSE IF Len(explanations) = 1 THEN Head(explanations)
    ELSE Head(explanations) \o <<" x ">> \o join_all(Tail(explanations))

\* " x ".join(explanation for explanation in explanations if explanation)
RECURSIVE join_nonempty(_)
join_nonempty(explanations) ==
    IF explanations = <<>> THEN <<>>
    ELSE IF Head(explanations) = <<>> THEN join_nonempty(Tail(explanations))
    ELSE LET rest == join_nonempty(Tail(explanations))
         IN IF rest = <<>> THEN Head(explanations) ELSE Head(explanations) \o <<" x ">> \o rest

\* _explain_count_recursive: the string, or the exception raised
RECURSIVE _explain_count_recursive(_)
_explain_count_recursive(n) ==
    LET handler == get_node_handler(n)
    IN IF handler = NoHandler THEN Exc("ValueError", None)
       ELSE IF handler \in StaticNodeHandlers
         THEN LET childs == children(handler, n)
                  explanations == [i \in DOMAIN childs |-> _explain_count_recursive(childs[i])]
              IN IF \E i \in DOMAIN childs : IsExc(explanations[i])
                   THEN explanations[CHOOSE i \in DOMAIN childs :
                                       /\ IsExc(explanations[i])
                                       /\ \A j \in 1..(i - 1) : ~IsExc(explanations[j])]
                   ELSE Str(join_nonempty([i \in DOMAIN childs |-> explanations[i].v]))
       ELSE IF handler \in {"ProcIf", "ProcIfLabels"} THEN Str(<<>>)
       ELSE IF handler_count(handler, n) = CountError THEN Exc("ValueError", None)
       ELSE Str(str_int(handler_count(handler, n)) \o <<"#", tag_of(n)>>)

explain_count_recursive(n) ==
    LET exp == _explain_count_recursive(n)
    IN IF exp = Str(<<>>) THEN Str(<<"No variations">>) ELSE exp

----------------------------------------------------------------------------
(* iterate *)

\* util.py: the palette
COLORS == << <<255, 0, 0>>, <<0, 255, 0>>, <<0, 0, 255>>, <<255, 255, 0>>, <<255, 0, 255>>,
             <<0, 255, 255>>, <<192, 192, 192>>, <<128, 128, 128>>, <<128, 0, 0>>, <<0, 128, 0>> >>

NewList(items) == [cls |-> "list", obj |-> FreshObj, items |-> items]
NewDict(keys, vals) == [cls |-> "dict", obj |-> FreshObj, keys |-> keys, vals |-> vals]

HasKey(n, key) == \E i \in DOMAIN n.keys : n.keys[i] = key
Field(n, key) == n.vals[CHOOSE i \in DOMAIN n.keys : n.keys[i] = key]

\* A generator computing the given pairs in turn: it ends at the first that raises
RECURSIVE UntilRaise(_)
UntilRaise(pairs) ==
    IF pairs = <<>> THEN Run(<<>>, None)
    ELSE IF IsExc(Head(pairs).value) THEN Run(<<>>, Head(pairs).value)
    ELSE LET r == UntilRaise(Tail(pairs)) IN Run(<<Head(pairs)>> \o r.items, r.exc)

\* (value, Meta(labels=[...])): the Meta constructor is called with a keyword
LabelledPair(value, labels) ==
    LET m == Meta_init({"labels"})
    IN IF IsExc(m) THEN Raise(m) ELSE Pair(value, MetaRec(labels))

RECURSIVE FlattenLabels(_)
FlattenLabels(tuple) ==
    IF tuple = <<>> THEN <<>> ELSE Head(tuple).meta.labels \o FlattenLabels(Tail(tuple))
extract_meta(tuple) == MetaRec(FlattenLabels(tuple))
extract_children(tuple) == [i \in DOMAIN tuple |-> tuple[i].value]

\* One outer item in front of every tuple the inner product yields
Prepend(item, tuples) == [i \in DOMAIN tuples |-> <<item>> \o tuples[i]]

\* the loops swapped: the first iterable varies fastest
RECURSIVE product_loop_swapped(_, _, _)
product_loop_swapped(items, final_exc, inner) ==
    LET RECURSIVE outer(_)
        outer(tuples) == IF tuples = <<>> THEN <<>>
                         ELSE [i \in DOMAIN items |-> <<items[i]>> \o Head(tuples)] \o outer(Tail(tuples))
    IN { Run(outer(r.items), IF r.exc # None THEN r.exc ELSE final_exc) : r \in inner }

\* The tuples one call of product(*rest) yields, as allocated by its k-th call
MarkTuples(tuples, k) ==
    [i \in DOMAIN tuples |->
        [j \in DOMAIN tuples[i] |-> Pair(Mark(tuples[i][j].value, k), tuples[i][j].meta)]]

\* for item in it(): for items in product(*rest): yield (item,) + items
\* `inner` is what one call of product(*rest) may yield; it is called anew per item,
\* while the one object `item` goes into every tuple of that call
RECURSIVE product_loop(_, _, _)
product_loop(items, final_exc, inner) ==
    IF items = <<>> THEN { Run(<<>>, final_exc) }
    ELSE UNION { IF r.exc # None
                   THEN { Run(Prepend(Head(items), MarkTuples(r.items, Len(items))), r.exc) }
                   ELSE { Run(Prepend(Head(items), MarkTuples(r.items, Len(items))) \o rest.items,
                              rest.exc)
                            : rest \in product_loop(Tail(items), final_exc, inner) }
                 : r \in inner }

\* util.product(*iterables): iterables[i] is the set of runs one call of the
\* i-th iterable may give.  The result is the set of runs of the product.
RECURSIVE product(_)
product(iterables) ==
    IF Len(iterables) = 0 THEN { Run(<< <<>> >>, None) }
    ELSE LET inner == product(Tail(iterables))
         IN UNION { product_loop(it.items, it.exc, inner) : it \in Head(iterables) }

\* map(extract, run) over the extracted items: stops at the first extraction that raises
RECURSIVE map_run(_, _)
map_run(extracted, final_exc) ==
    IF extracted = <<>> THEN Run(<<>>, final_exc)
    ELSE IF IsExc(Head(extracted).value) THEN Run(<<>>, Head(extracted).value)
    ELSE LET r == map_run(Tail(extracted), final_exc)
         IN Run(<<Head(extracted)>> \o r.items, r.exc)

to_rgb(color) == NewTag("RGB", <<"r", "g", "b">>, <<Num(color[1]), Num(color[2]), Num(color[3])>>)

\* scale_vector3: Vector3(x=vector.x * scale, ...)
scale_vector3(vector, scale) ==
    IF \A k \in {"x", "y", "z"} : Field(vector, k).cls = "int"
      THEN Vector3_init(<<"x", "y", "z">>,
                        << Num(Field(vector, "x").v * scale), Num(Field(vector, "y").v * scale),
                           Num(Field(vector, "z").v * scale) >>)
      ELSE Exc("TypeError", None)

UnitVector == Vector3(Num(1), Num(1), Num(1))

\* ProcRepeatChoice: [var] + [deepcopy(var) for _ in range(node.amount - 1)], for the
\* j-th var: the list and the copies are new objects, var itself is not
duplicate(var, n, j) ==
    [cls |-> "list", obj |-> FreshObj \o <<j>>,
     items |-> <<var>> \o [i \in 1..(n - 1) |-> Mark(deepcopy_nth(var, i), j)]]

\* All the sequences of n draws from `samples`, cut at the first draw that raises;
\* every draw allocates its own objects
RECURSIVE draws(_, _)
draws(samples, n) ==
    IF n <= 0 THEN { Run(<<>>, None) }
    ELSE UNION { IF IsExc(d.value) THEN { Run(<<>>, d.value) }
                 ELSE { Run(<<Pair(Mark(d.value, n), d.meta)>> \o r.items, r.exc)
                          : r \in draws(samples, n - 1) }
                 : d \in samples }

RECURSIVE iterate_variations_recursive(_)
RECURSIVE sample_recursive(_)

StructuralExtract(n, tuple) ==
    LET cs == extract_children(tuple)
        v == CASE n.cls = "list" -> NewList(cs)
               [] n.cls = "dict" -> NewDict(n.keys, cs)
               [] OTHER -> NewTag(n.cls, n.keys, cs)
    IN IF IsExc(v) THEN Raise(v) ELSE Pair(v, extract_meta(tuple))

\* The container the i-th call of `extract` builds: a new object around the children
NthNew(pair, i) ==
    IF "obj" \in DOMAIN pair.value
      THEN Pair([pair.value EXCEPT !.obj = @ \o <<i>>], pair.meta)
      ELSE pair

\* PlainSequence / PlainMapping / AnimalAIMapping .iterate
Structural_iterate(handler, n) ==
    LET childs == children(handler, n)
        child_iterators == [i \in DOMAIN childs |-> iterate_variations_recursive(childs[i])]
        extract(tuple) == StructuralExtract(n, tuple)
    IN { map_run([i \in DOMAIN r.items |-> NthNew(extract(r.items[i]), i)], r.exc)
           : r \in product(child_iterators) }

ProcList_iterate(n) ==
    { UntilRaise([i \in DOMAIN n.options |-> Pair(deepcopy_nth(n.options[i], i), Meta_init({}))]) }

ProcListLabelled_iterate(n) ==
    { UntilRaise([i \in DOMAIN n.options |->
                    LabelledPair(deepcopy(Field(n.options[i], "value")),
                                 <<deepcopy(Field(n.options[i], "label"))>>)]) }

\* the first node.amount colours only
ProcColor_iterate_amount(n) ==
    { UntilRaise([i \in 1..n.amount |-> Pair(Mark(to_rgb(COLORS[i]), i), Meta_init({}))]) }
ProcColor_iterate(n) ==
    { UntilRaise([i \in DOMAIN COLORS |-> Pair(Mark(to_rgb(COLORS[i]), i), Meta_init({}))]) }

ProcVector3Scaled_iterate(n) ==
    LET base == IF n.base # None THEN n.base ELSE UnitVector
        value(i) == Mark(scale_vector3(deepcopy(base), n.scales[i]), i)
    IN IF n.labels = None
         THEN { UntilRaise([i \in DOMAIN n.scales |-> Pair(value(i), Meta_init({}))]) }
       ELSE IF Len(n.labels.items) # Len(n.scales)
         THEN { Run(<<>>, Exc("AssertionError", None)) }
       ELSE { UntilRaise([i \in DOMAIN n.scales |->
                            IF IsExc(value(i)) THEN Raise(value(i))
                            ELSE LabelledPair(value(i), <<n.labels.items[i]>>)]) }

ProcRepeatChoice_iterate(n) ==
    { Run([i \in DOMAIN r.items |-> Pair(duplicate(r.items[i].value, n.amount, i), r.items[i].meta)],
          r.exc)
        : r \in iterate_variations_recursive(n.value) }

\* the first `amount` items of the wrapped node's own iteration
ProcRestrictCombinations_iterate_prefix(n) ==
    { Run(SubSeq(r.items, 1, IF n.amount < Len(r.items) THEN n.amount ELSE Len(r.items)), r.exc)
        : r \in iterate_variations_recursive(n.item) }

ProcRestrictCombinations_iterate(n) == draws(sample_recursive(n.item), n.amount)

ProcIf_iterate(n) == { Run(<<Pair(MutablePlaceholder(n), Meta_init({}))>>, None) }

ProcIfLabels_iterate(n) == { Run(<<>>, Exc("ValueError", None)) }

\* The runs handler.iterate(node, iterate_variations_recursive) may give
iterate_variations_recursive(n) ==
    LET handler == get_node_handler(n)
    IN CASE handler = NoHandler -> { Run(<<>>, Exc("ValueError", None)) }
         [] handler \in {"PlainSequence", "PlainMapping", "AnimalAIMapping", "AnimalAISequence"} ->
              Structural_iterate(handler, n)
         [] handler \in {"PlainScalar", "AnimalAIScalar"} ->
              { Run(<<Pair(deepcopy(n), Meta_init({}))>>, None) }
         [] handler = "ProcList" -> ProcList_iterate(n)
         [] handler = "ProcListLabelled" -> ProcListLabelled_iterate(n)
         [] handler = "ProcColor" -> ProcColor_iterate(n)
         [] handler = "ProcVector3Scaled" -> ProcVector3Scaled_iterate(n)
         [] handler = "ProcRepeatChoice" -> ProcRepeatChoice_iterate(n)
         [] handler = "ProcRestrictCombinations" -> ProcRestrictCombinations_iterate(n)
         [] handler = "ProcIf" -> ProcIf_iterate(n)
         [] handler = "ProcIfLabels" -> ProcIfLabels_iterate(n)

----------------------------------------------------------------------------
(* sample: the set of results one call may give (random.choice is a free choice) *)

\* [sample(child) for child in childs]: the tuples of results, or the first exception
RECURSIVE sample_all(_)
sample_all(childs) ==
    IF childs = <<>> THEN { Run(<<>>, None) }
    ELSE UNION { IF IsExc(d.value) THEN { Run(<<>>, d.value) }
                 ELSE { IF r.exc # None THEN r ELSE Run(<<d>> \o r.items, None)
                          : r \in sample_all(Tail(childs)) }
                 : d \in sample_recursive(Head(childs)) }

Structural_sample(handler, n) ==
    { IF r.exc # None THEN Raise(r.exc) ELSE StructuralExtract(n, r.items)
        : r \in sample_all(children(handler, n)) }

ProcList_sample(n) ==
    IF n.options = <<>> THEN { Raise(Exc("IndexError", None)) }
    ELSE { Pair(deepcopy(n.options[i]), Meta_init({})) : i \in DOMAIN n.options }

ProcListLabelled_sample(n) ==
    IF n.options = <<>> THEN { Raise(Exc("IndexError", None)) }
    ELSE { LET option == deepcopy(n.options[i])
           IN LabelledPair(Field(option, "value"), <<Field(option, "label")>>)
             : i \in DOMAIN n.options }

ProcColor_sample(n) == { Pair(to_rgb(COLORS[i]), Meta_init({})) : i \in DOMAIN COLORS }

ProcVector3Scaled_sample(n) ==
    LET base == IF n.base # None THEN deepcopy(n.base) ELSE UnitVector
        value(i) == scale_vector3(base, n.scales[i])
    IN IF n.scales = <<>> THEN { Raise(Exc("ValueError", None)) }
       ELSE IF n.labels = None
         THEN { IF IsExc(value(i)) THEN Raise(value(i)) ELSE Pair(value(i), Meta_init({}))
                  : i \in DOMAIN n.scales }
       ELSE IF Len(n.labels.items) # Len(n.scales)
         THEN { Raise(Exc("AssertionError", None)) }
       ELSE { LabelledPair(value(i), <<n.labels.items[i]>>) : i \in DOMAIN n.scales }

ProcRepeatChoice_sample(n) ==
    { IF IsExc(d.value) THEN d ELSE Pair(duplicate(d.value, n.amount, 1), d.meta)
        : d \in sample_recursive(n.value) }

ProcRestrictCombinations_sample(n) == sample_recursive(n.item)

ProcIf_sample(n) == { Pair(MutablePlaceholder(n), Meta_init({})) }

\* a placeholder, as !ProcIf gives
ProcIfLabels_sample_placeholder(n) == { Pair(MutablePlaceholder(n), Meta_init({})) }
ProcIfLabels_sample(n) == { Raise(Exc("ValueError", None)) }

\* The results handler.sample(node, sample_recursive) may give
sample_recursive(n) ==
    LET handler == get_node_handler(n)
    IN CASE handler = NoHandler -> { Raise(Exc("ValueError", None)) }
         [] handler \in {"PlainSequence", "PlainMapping", "AnimalAIMapping", "AnimalAISequence"} ->
              Structural_sample(handler, n)
         [] handler \in {"PlainScalar", "AnimalAIScalar"} -> { Pair(deepcopy(n), Meta_init({})) }
         [] handler = "ProcList" -> ProcList_sample(n)
         [] handler = "ProcListLabelled" -> ProcListLabelled_sample(n)
         [] handler = "ProcColor" -> ProcColor_sample(n)
         [] handler = "ProcVector3Scaled" -> ProcVector3Scaled_sample(n)
         [] handler = "ProcRepeatChoice" -> ProcRepeatChoice_sample(n)
         [] handler = "ProcRestrictCombinations" -> ProcRestrictCombinations_sample(n)
         [] handler = "ProcIf" -> ProcIf_sample(n)
         [] handler = "ProcIfLabels" -> ProcIfLabels_sample(n)

----------------------------------------------------------------------------
(* sample with the module `random` as it is: a generator whose outputs are a     *)
(* function of its state.  The state is a number; a draw advances it.            *)

RandomStates == 16      \* states of the generator in the model
\* the state after one draw
advance(random) == (5 * random + 3) % RandomStates
\* random.seed(seed): the state is set from the seed alone
random_seed(seed) == seed % RandomStates
\* random.choice(seq) / random.randint(0, len - 1): the index drawn (from 1), the new state
random_index(len, random) == [idx |-> (random % len) + 1, random |-> advance(random)]

\* the random state left as the process found it
init_unseeded(seed, random) == random
\* core.init(seed): random.seed(seed)
init(seed, random) == random_seed(seed)

RECURSIVE sample_seeded(_, _)

\* [sample(child) for child in childs], the state going from each call to the next
RECURSIVE sample_all_seeded(_, _)
sample_all_seeded(childs, random) ==
    IF childs = <<>> THEN [run |-> Run(<<>>, None), random |-> random]
    ELSE LET d == sample_seeded(Head(childs), random)
         IN IF IsExc(d.out.value) THEN [run |-> Run(<<>>, d.out.value), random |-> d.random]
            ELSE LET r == sample_all_seeded(Tail(childs), d.random)
                 IN [run |-> IF r.run.exc # None THEN r.run
                             ELSE Run(<<d.out>> \o r.run.items, None),
                     random |-> r.random]

\* handler.sample(node, sample_recursive) in the state `random`: the result and the
\* state it leaves
sample_seeded(n, random) ==
    LET handler == get_node_handler(n)
        Out(pair, state) == [out |-> pair, random |-> state]
    IN CASE handler = NoHandler -> Out(Raise(Exc("ValueError", None)), random)
         [] handler \in {"PlainSequence", "PlainMapping", "AnimalAIMapping", "AnimalAISequence"} ->
              LET r == sample_all_seeded(children(handler, n), random)
              IN Out(IF r.run.exc # None THEN Raise(r.run.exc)
                     ELSE StructuralExtract(n, r.run.items), r.random)
         [] handler \in {"PlainScalar", "AnimalAIScalar"} ->
              Out(Pair(deepcopy(n), Meta_init({})), random)
         [] handler = "ProcList" ->
              IF n.options = <<>> THEN Out(Raise(Exc("IndexError", None)), random)
              ELSE LET c == random_index(Len(n.options), random)
                   IN Out(Pair(deepcopy(n.options[c.idx]), Meta_init({})), c.random)
         [] handler = "ProcListLabelled" ->
              IF n.options = <<>> THEN Out(Raise(Exc("IndexError", None)), random)
              ELSE LET c == random_index(Len(n.options), random)
                       option == deepcopy(n.options[c.idx])
                   IN Out(LabelledPair(Field(option, "value"), <<Field(option, "label")>>),
                          c.random)
         [] handler = "ProcColor" ->
              LET c == random_index(Len(COLORS), random)
              IN Out(Pair(to_rgb(COLORS[c.idx]), Meta_init({})), c.random)
         [] handler = "ProcVector3Scaled" ->
              IF n.scales = <<>> THEN Out(Raise(Exc("ValueError", None)), random)
              ELSE LET c == random_index(Len(n.scales), random)
                       base == IF n.base # None THEN deepcopy(n.base) ELSE UnitVector
                       value == scale_vector3(base, n.scales[c.idx])
                   IN Out(IF n.labels = None
                            THEN (IF IsExc(value) THEN Raise(value)
                                  ELSE Pair(value, Meta_init({})))
                          ELSE IF Len(n.labels.items) # Len(n.scales)
                            THEN Raise(Exc("AssertionError", None))
                          ELSE LabelledPair(value, <<n.labels.items[c.idx]>>), c.random)
         [] handler = "ProcRepeatChoice" ->
              LET d == sample_seeded(n.value, random)
              IN Out(IF IsExc(d.out.value) THEN d.out
                     ELSE Pair(duplicate(d.out.value, n.amount, 1), d.out.meta), d.random)
         [] handler = "ProcRestrictCombinations" -> sample_seeded(n.item, random)
         [] handler = "ProcIf" -> Out(Pair(MutablePlaceholder(n), Meta_init({})), random)
         [] handler = "ProcIfLabels" -> Out(Raise(Exc("ValueError", None)), random)

----------------------------------------------------------------------------
(* handlers.py: ConditionResolver, ProcIf.__resolve_condition, ProcIfLabels.resolve. *)
(* `root` is the variation: a forced fill changes a placeholder inside it, so every  *)
(* operator returns the root it leaves.  A position is the path of slot indexes      *)
(* (into items / vals) from the root.                                                 *)

Slots(n) == IF "items" \in DOMAIN n THEN n.items ELSE IF "vals" \in DOMAIN n THEN n.vals ELSE <<>>

RECURSIVE NodeAt(_, _)
NodeAt(root, path) == IF path = <<>> THEN root ELSE NodeAt(Slots(root)[Head(path)], Tail(path))

RECURSIVE SetAt(_, _, _)
SetAt(root, path, new) ==
    IF path = <<>> THEN new
    ELSE IF "items" \in DOMAIN root
      THEN [root EXCEPT !.items[Head(path)] = SetAt(@, Tail(path), new)]
      ELSE [root EXCEPT !.vals[Head(path)] = SetAt(@, Tail(path), new)]

\* str.split(".")
RECURSIVE split(_)
split(toks) ==
    IF toks = <<>> THEN << <<>> >>
    ELSE LET rest == split(Tail(toks))
         IN IF Head(toks) = "." THEN << <<>> >> \o rest
            ELSE << <<Head(toks)>> \o Head(rest) >> \o Tail(rest)

isdigit(part) == part # <<>> /\ \A i \in DOMAIN part : \E d \in DOMAIN Digits : Digits[d] = part[i]
RECURSIVE int(_)
int(part) ==
    IF part = <<>> THEN 0
    ELSE 10 * int(SubSeq(part, 1, Len(part) - 1))
           + ((CHOOSE d \in DOMAIN Digits : Digits[d] = part[Len(part)]) - 1)

\* path = [int(key) if key.isdigit() else key for key in path_]
Key(part) == IF isdigit(part) THEN [isint |-> TRUE, n |-> int(part), s |-> <<>>]
             ELSE [isint |-> FALSE, n |-> 0, s |-> part]

\* how a dict spells its integer keys
IntKeys == << "#0", "#1", "#2" >>
KeyMatches(k, key) ==
    IF key.isint THEN key.n < Len(IntKeys) /\ k = IntKeys[key.n + 1]
    ELSE Len(key.s) = 1 /\ k = key.s[1]

\* the attributes of a !Proc mapping tag, as nodes
AttrNode(n, f) ==
    IF f \in {"amount"} THEN Num(n[f])
    ELSE IF f \in {"scales"} THEN List([i \in DOMAIN n[f] |-> Num(n[f][i])])
    ELSE IF f \in SeqFields THEN List(n[f])
    ELSE n[f]

\* list.__getitem__
list_getitem(items, key) ==
    IF ~key.isint THEN [value |-> Exc("TypeError", None), slot |-> 0]
    ELSE IF key.n >= Len(items) THEN [value |-> Exc("IndexError", None), slot |-> 0]
    ELSE [value |-> items[key.n + 1], slot |-> key.n + 1]

\* value[key]: the value (or the exception) and the slot of `value` it sits in (0: none)
RECURSIVE getitem(_, _)
getitem(value, key) ==
    CASE value.cls = "list" -> list_getitem(value.items, key)
      [] value.cls = "dict" \/ (isinstance(value, "CustomMappingTag") /\ "keys" \in DOMAIN value) ->
           IF \E i \in DOMAIN value.keys : KeyMatches(value.keys[i], key)
             THEN LET i == CHOOSE i \in DOMAIN value.keys : KeyMatches(value.keys[i], key)
                  IN [value |-> value.vals[i], slot |-> i]
             ELSE [value |-> Exc("KeyError", None), slot |-> 0]
      [] isinstance(value, "CustomMappingTag") ->
           IF ~key.isint /\ Len(key.s) = 1 /\ key.s[1] \in (DOMAIN value) \ {"cls", "obj"}
             THEN [value |-> AttrNode(value, key.s[1]), slot |-> 0]
             ELSE [value |-> Exc("KeyError", None), slot |-> 0]
      [] value.cls \in {"ProcList", "ProcListLabelled"} ->
           [value |-> list_getitem(value.options, key).value, slot |-> 0]
      [] value.cls = "Range" ->
           IF key.isint /\ key.n = 0 THEN [value |-> Num(value.min), slot |-> 0]
           ELSE IF key.isint /\ key.n = 1 THEN [value |-> Num(value.max), slot |-> 0]
           ELSE [value |-> Exc("IndexError", None), slot |-> 0]
      [] isinstance(value, "CustomScalarTag") -> [value |-> Exc("ValueError", None), slot |-> 0]
      [] value.cls = "MutablePlaceholder" ->
           IF value.value = None THEN [value |-> Exc("ValueError", None), slot |-> 0]
           ELSE [value |-> getitem(value.value, key).value, slot |-> 0]
      [] value.cls = "str" ->
           IF key.isint /\ key.n < Len(value.v)
             THEN [value |-> Str(<<value.v[key.n + 1]>>), slot |-> 0]
           ELSE IF key.isint THEN [value |-> Exc("IndexError", None), slot |-> 0]
           ELSE [value |-> Exc("TypeError", None), slot |-> 0]
      [] OTHER -> [value |-> Exc("TypeError", None), slot |-> 0]

\* a value that is not a position of the root
Detached == << 0 >>

\* the element of a one-element set: The({ e : x \in {v} }) is e with x standing for v
The(S) == CHOOSE x \in S : TRUE

\* value[key] for the value at position `at`: what it gives and where that is
getitem_at(value, at, key) ==
    The({ [value |-> g.value,
           at |-> IF at # Detached /\ g.slot # 0 THEN at \o <<g.slot>> ELSE Detached]
          : g \in { getitem(value, key) } })

NotFound == << 0 >>     \* no path holds slot 0

\* WithId.get_id() == item_id
HasId(n, item_id) ==
    /\ "keys" \in DOMAIN n /\ HasKey(n, "id")
    /\ Field(n, "id").cls = "str" /\ Field(n, "id").v = item_id

\* ConditionResolver.__find_item: the path of the item, NotFound, or <<-1>> when
\* get_node_handler raised
RECURSIVE find_item(_, _, _)
RECURSIVE first_found(_, _, _, _)
\* the children searched from the last to the first
RECURSIVE first_found_last(_, _, _, _)
first_found_last(item_id, root, path, i) ==
    LET n == NodeAt(root, path)
        childs == children(get_node_handler(n), n)
    IN IF i > Len(childs) THEN NotFound
       ELSE LET f == find_item(item_id, root, path \o << Len(childs) + 1 - i >>)
            IN IF f # NotFound THEN f ELSE first_found_last(item_id, root, path, i + 1)

first_found(item_id, root, path, i) ==
    LET n == NodeAt(root, path)
        childs == children(get_node_handler(n), n)
    IN IF i > Len(childs) THEN NotFound
       ELSE LET f == find_item(item_id, root, path \o <<i>>)
            IN IF f # NotFound THEN f ELSE first_found(item_id, root, path, i + 1)

find_item(item_id, root, path) ==
    LET n == NodeAt(root, path)
    IN IF isinstance(n, "AnimalAITag") /\ isinstance(n, "WithId") /\ HasId(n, item_id) THEN path
       ELSE IF ~isinstance(n, "AnimalAITag") /\ isinstance(n, "CustomTag") THEN NotFound
       ELSE IF isinstance(n, "MutablePlaceholder") THEN NotFound
       ELSE IF get_node_handler(n) = NoHandler THEN << 0 - 1 >>
       ELSE first_found(item_id, root, path, 1)

\* errors.py: BaseProcGenError(user_label, ...) and NodeAnnotatedProcGenError(node, user_label, ...)
BaseProcGenError(user_label) == Exc("BaseProcGenError", Str(<<user_label>>))
NodeAnnotatedProcGenError(n, user_label) ==
    [cls |-> "Exception", type |-> "NodeAnnotatedProcGenError",
     user_label |-> Str(<<user_label>>), node |-> n]

\* `if self.labels`: None and the empty list are false
truthy(labels) == labels # None /\ labels.items # <<>>

\* tags.ProcIf.__init__: the node, or the exception raised
ProcIf_init(value, cases, then, default, labels, default_label) ==
    LET self == ProcIf(value, cases, then, default, labels, default_label)
    IN IF Len(then) # Len(cases) THEN NodeAnnotatedProcGenError(self, "LengthMismatch")
       ELSE IF truthy(labels) /\ Len(labels.items) # Len(cases)
         THEN NodeAnnotatedProcGenError(self, "LengthMismatch")
       ELSE self

\* tags.ProcIfLabels.__init__
ProcIfLabels_init(value, cases, labels, default) ==
    LET self == ProcIfLabels(value, cases, labels, default)
    IN IF truthy(labels) /\ Len(labels.items) # Len(cases)
         THEN NodeAnnotatedProcGenError(self, "LengthMismatch")
         ELSE self

IsNumber(v) == v.cls \in {"int", "float", "bool"}
NumVal(v) == IF v.cls = "bool" THEN (IF v.v THEN 1 ELSE 0) ELSE v.v

\* v_var == v_case: strings, numbers and containers by content, any other object by identity
RECURSIVE PyEq(_, _)
PyEq(a, b) ==
    IF IsNumber(a) /\ IsNumber(b) THEN NumVal(a) = NumVal(b)
    ELSE IF a.cls # b.cls THEN FALSE
    ELSE CASE a.cls = "str" -> a.v = b.v
           [] a.cls = "NoneType" -> TRUE
           [] a.cls = "list" ->
                /\ Len(a.items) = Len(b.items)
                /\ \A i \in DOMAIN a.items : PyEq(a.items[i], b.items[i])
           [] a.cls = "dict" ->
                /\ a.keys = b.keys
                /\ \A i \in DOMAIN a.vals : PyEq(a.vals[i], b.vals[i])
           [] OTHER -> a = b

\* a range that leaves its upper bound out
matches_half_open(v_var, v_case) ==
    IF isinstance(v_case, "Range")
      THEN IF ~IsNumber(v_var) THEN "TypeError"
           ELSE IF v_case.min <= NumVal(v_var) /\ NumVal(v_var) < v_case.max THEN "yes" ELSE "no"
    ELSE IF isinstance(v_case, "int") \/ isinstance(v_case, "float")
      THEN IF ~IsNumber(v_var) THEN "TypeError"
           ELSE IF NumVal(v_var) = NumVal(v_case) THEN "yes" ELSE "no"
    ELSE IF PyEq(v_var, v_case) THEN "yes" ELSE "no"
\* ConditionResolver.__matches: "yes", "no", or the exception it raises
matches(v_var, v_case) ==
    IF isinstance(v_case, "Range")
      THEN IF ~IsNumber(v_var) THEN "TypeError"
           ELSE IF v_case.min <= NumVal(v_var) /\ NumVal(v_var) <= v_case.max THEN "yes" ELSE "no"
    ELSE IF isinstance(v_case, "int") \/ isinstance(v_case, "float")
      THEN IF ~IsNumber(v_var) THEN "TypeError"
           ELSE IF NumVal(v_var) = NumVal(v_case) THEN "yes" ELSE "no"   \* math.isclose
    ELSE IF PyEq(v_var, v_case) THEN "yes" ELSE "no"

\* all(__matches(v1, v2) for v1, v2 in zip(values, case)), from position i on
RECURSIVE all_match(_, _, _)
all_match(values, case, i) ==
    IF i > Len(values) \/ i > Len(case) THEN "yes"
    ELSE The({ IF m = "yes" THEN all_match(values, case, i + 1) ELSE m
               : m \in { matches(values[i], case[i]) } })

\* the last matching case instead of the first
first_match_last(values, cases, idx) ==
    LET case(i) == IF isinstance(cases[i], "list") THEN cases[i].items ELSE <<cases[i]>>
        hits == { i \in idx..Len(cases) :
                    Len(case(i)) = Len(values) /\ all_match(values, case(i), 1) = "yes" }
    IN IF hits = {} THEN [idx |-> 0, exc |-> NoExc]
       ELSE [idx |-> CHOOSE i \in hits : \A j \in hits : j <= i, exc |-> NoExc]

\* the loop over the cases, from case idx on.  Indexes count from 1; 0 is Python's -1.
RECURSIVE first_match(_, _, _)
first_match(values, cases, idx) ==
    IF idx > Len(cases) THEN [idx |-> 0, exc |-> NoExc]
    ELSE LET case == IF isinstance(cases[idx], "list") THEN cases[idx].items ELSE <<cases[idx]>>
         IN IF Len(case) # Len(values) THEN [idx |-> 0, exc |-> Exc("ValueError", None)]
            ELSE The({ IF m = "yes" THEN [idx |-> idx, exc |-> NoExc]
                       ELSE IF m = "no" THEN first_match(values, cases, idx + 1)
                       ELSE [idx |-> 0, exc |-> Exc(m, None)]
                       : m \in { all_match(values, case, 1) } })

\* the interpreter's limit on nested calls, counted in nested fills
RecursionLimit == 3

RECURSIVE fill(_, _, _)
RECURSIVE walk_path(_, _, _, _, _)
RECURSIVE find_variable(_, _, _)
RECURSIVE find_all(_, _, _)
RECURSIVE resolve(_, _, _, _)
RECURSIVE resolve_condition(_, _, _)

\* the try block letting the exception of a forced fill through as it is
walk_path_reraising(root, value, at, keys, depth) ==
    IF keys = <<>> THEN [root |-> root, value |-> value]
    ELSE The({
      IF IsExc(g.value)
        THEN [root |-> root, value |-> BaseProcGenError("NonExistentVariable")]
      ELSE IF g.value.cls = "MutablePlaceholder" /\ ~is_filled(g.value) /\ g.at # Detached
        THEN The({ IF f.exc # NoExc
                     THEN [root |-> f.root, value |-> f.exc]
                     ELSE walk_path(f.root, NodeAt(f.root, g.at), g.at, Tail(keys), depth)
                   : f \in { fill(root, g.at, depth + 1) } })
      ELSE walk_path(root, g.value, g.at, Tail(keys), depth)
      : g \in { getitem_at(value, at, Key(Head(keys))) } })

\* the body of the try block of __find_variable, from `value` (at position `at`) on
walk_path(root, value, at, keys, depth) ==
    IF keys = <<>> THEN [root |-> root, value |-> value]
    ELSE The({
      IF IsExc(g.value)
        THEN [root |-> root, value |-> BaseProcGenError("NonExistentVariable")]
      ELSE IF g.value.cls = "MutablePlaceholder" /\ ~is_filled(g.value) /\ g.at # Detached
        THEN The({ IF f.exc # NoExc
                     THEN [root |-> f.root, value |-> BaseProcGenError("NonExistentVariable")]
                     ELSE walk_path(f.root, NodeAt(f.root, g.at), g.at, Tail(keys), depth)
                   : f \in { fill(root, g.at, depth + 1) } })
      ELSE walk_path(root, g.value, g.at, Tail(keys), depth)
      : g \in { getitem_at(value, at, Key(Head(keys))) } })

\* ConditionResolver.__find_variable: the value found, or the exception raised
find_variable(variable, root, depth) ==
    IF variable.cls # "str" THEN [root |-> root, value |-> Exc("AttributeError", None)]
    ELSE The({
      IF item = << 0 - 1 >> THEN [root |-> root, value |-> Exc("ValueError", None)]
      ELSE IF item = NotFound THEN [root |-> root, value |-> BaseProcGenError("IDNotFound")]
      ELSE walk_path(root, NodeAt(root, item), item, Tail(split(variable.v)), depth)
      : item \in { find_item(Head(split(variable.v)), root, <<>>) } })

\* [__find_variable(variable, root) for variable in variables]
find_all(variables, root, depth) ==
    IF variables = <<>> THEN [root |-> root, values |-> <<>>, exc |-> NoExc]
    ELSE The({
      IF IsExc(v.value) THEN [root |-> v.root, values |-> <<>>, exc |-> v.value]
      ELSE The({ [root |-> rest.root, values |-> <<v.value>> \o rest.values, exc |-> rest.exc]
                 : rest \in { find_all(Tail(variables), v.root, depth) } })
      : v \in { find_variable(Head(variables), root, depth) } })

\* ConditionResolver.resolve
resolve(variables, cases, root, depth) ==
    The({
      IF found.exc # NoExc
        THEN [root |-> found.root, idx |-> 0, values |-> <<>>, exc |-> found.exc]
        ELSE The({ [root |-> found.root, idx |-> m.idx, values |-> found.values, exc |-> m.exc]
                   : m \in { first_match(found.values, cases, 1) } })
      : found \in { find_all(variables, root, depth) } })

\* the default returned whenever there is one, default label or not
resolve_condition_lenient(n, root, depth) ==
    The({ IF r.exc # NoExc THEN [root |-> r.root, exc |-> r.exc, value |-> None, label |-> None]
          ELSE IF r.idx = 0
            THEN IF n.default = None
                   THEN [root |-> r.root, exc |-> NodeAnnotatedProcGenError(n, "MissingCase"),
                         value |-> None, label |-> None]
                   ELSE [root |-> r.root, exc |-> NoExc,
                         value |-> n.default, label |-> n.default_label]
          ELSE [root |-> r.root, exc |-> NoExc, value |-> n.then[r.idx],
                label |-> IF n.labels # None /\ n.labels.items # <<>>
                            THEN n.labels.items[r.idx] ELSE None]
          : r \in { resolve(IF isinstance(n.value, "list") THEN n.value.items ELSE <<n.value>>,
                            n.cases, root, depth) } })

\* ProcIf.__resolve_condition
resolve_condition(n, root, depth) ==
    LET variables == IF isinstance(n.value, "list") THEN n.value.items ELSE <<n.value>>
        labels == IF n.labels # None /\ n.labels.items # <<>> THEN n.labels.items
                  ELSE [i \in DOMAIN n.cases |-> None]
    IN IF Len(labels) # Len(n.cases)
         THEN [root |-> root, exc |-> Exc("AssertionError", None), value |-> None, label |-> None]
       ELSE The({
         IF r.exc # NoExc THEN [root |-> r.root, exc |-> r.exc, value |-> None, label |-> None]
         ELSE IF r.idx = 0
           THEN IF n.default = None \/ (n.labels # None /\ n.default_label = None)
                  THEN [root |-> r.root, exc |-> NodeAnnotatedProcGenError(n, "MissingCase"),
                        value |-> None, label |-> None]
                  ELSE [root |-> r.root, exc |-> NoExc,
                        value |-> n.default, label |-> n.default_label]
         ELSE [root |-> r.root, exc |-> NoExc, value |-> n.then[r.idx], label |-> labels[r.idx]]
         : r \in { resolve(variables, n.cases, root, depth) } })

\* a fill forced from a fill that is under way gives up the lookup: the default
fill_guarded(root, path, depth) ==
    IF depth > 0
      THEN [root |-> SetAt(root, path,
                           [NodeAt(root, path) EXCEPT !.value = Str(<<"d">>), !.label = None]),
            exc |-> NoExc]
    ELSE The({
      IF r.exc # NoExc THEN [root |-> r.root, exc |-> r.exc]
      ELSE [root |-> SetAt(r.root, path,
                           [NodeAt(r.root, path) EXCEPT !.value = r.value, !.label = r.label]),
            exc |-> NoExc]
      : r \in { resolve_condition(NodeAt(root, path).proc_if, root, depth) } })

\* MutablePlaceholder.fill of the placeholder at `path`: self.value, self.label = self.proc_if(root)
fill(root, path, depth) ==
    IF depth > RecursionLimit THEN [root |-> root, exc |-> Exc("RecursionError", None)]
    ELSE The({
      IF r.exc # NoExc THEN [root |-> r.root, exc |-> r.exc]
      ELSE [root |-> SetAt(r.root, path,
                           [NodeAt(r.root, path) EXCEPT !.value = r.value, !.label = r.label]),
            exc |-> NoExc]
      : r \in { resolve_condition(NodeAt(root, path).proc_if, root, depth) } })

\* ProcIfLabels.resolve(node, variation, meta); root is the variation
ProcIfLabels_resolve(n, root, m) ==
    LET variables == IF isinstance(n.value, "list") THEN n.value.items ELSE <<n.value>>
    IN IF Len(n.labels.items) # Len(n.cases)
         THEN [root |-> root, meta |-> m, exc |-> Exc("AssertionError", None)]
       ELSE The({
         IF r.exc # NoExc THEN [root |-> r.root, meta |-> m, exc |-> r.exc]
         ELSE IF r.idx = 0
           THEN IF n.default = None
                  THEN [root |-> r.root, meta |-> m,
                        exc |-> NodeAnnotatedProcGenError(n, "MissingCase")]
                  ELSE [root |-> r.root, meta |-> add_label(m, n.default), exc |-> NoExc]
         ELSE [root |-> r.root, meta |-> add_label(m, n.labels.items[r.idx]), exc |-> NoExc]
         : r \in { resolve(variables, n.cases, root, 0) } })

----------------------------------------------------------------------------
(* The nodes the engine operations are applied to *)

SeqsUpTo(S, n) == UNION { [1..k -> S] : k \in 1..n }

Vec == Vector3(Num(1), Num(2), Num(3))
OptionValues == { Num(1), Num(2), Vec }
LabelledOptions == { new_labelled_option(Str(<<"a">>), Num(1)),
                     new_labelled_option(Str(<<"b">>), Vec) }
ScaleLabels(scales) == List([i \in DOMAIN scales |-> Str([j \in 1..scales[i] |-> "s"])])
\* a !ProcIf on a variable no document here defines: it only ever becomes a placeholder
IfPlain == ProcIf(Str(<<"foo", ".", "size">>), <<Num(1)>>, <<Num(7)>>, None, None, None)
IfLabelsPlain == ProcIfLabels(Str(<<"foo", ".", "size">>), <<Num(1)>>, List(<<Str(<<"S">>)>>), None)
IfLabelsDefault ==
    ProcIfLabels(List(<<Str(<<"foo", ".", "size">>), Str(<<"foo", ".", "name">>)>>),
                 <<List(<<Num(1), Str(<<"a">>)>>)>>, List(<<Str(<<"S">>)>>), Str(<<"other">>))

ProcLists == { ProcList(o) : o \in SeqsUpTo(OptionValues, MaxOptions) }
ProcListsLabelled == { ProcListLabelled(o) : o \in SeqsUpTo(LabelledOptions, MaxOptions) }
ProcColors == { ProcColor(a) : a \in (1..MaxAmount) \cup {Len(COLORS)} }
ProcVectors ==
    UNION { { ProcVector3Scaled(b, sc, None), ProcVector3Scaled(b, sc, ScaleLabels(sc)) }
              : <<b, sc>> \in {None, Vec} \X SeqsUpTo({1, 2}, MaxOptions) }
Scalars == { Num(1), Num(2), Str(<<"a">>), [cls |-> "bool", v |-> TRUE] }

TwoOptions == ProcList(<<Num(1), Num(2)>>)
MixedOptions == ProcList(<<Vec, Num(2)>>)
TwoScales == ProcVector3Scaled(None, <<1, 2>>, None)

\* what a !ProcRepeatChoice or a !ProcRestrictCombinations wraps
Wrapped == { Num(1), TwoOptions, MixedOptions, TwoScales, IfPlain, ProcColor(1),
             List(<<TwoOptions, Num(1)>>) }
RepeatChoices == { ProcRepeatChoice(a, w) : a \in 0..MaxAmount, w \in Wrapped }
\* (a restricted !ProcColor has ten to the power `amount` iterations: left out)
RestrictCombinations ==
    { ProcRestrictCombinations(a, w) : a \in 0..MaxAmount, w \in Wrapped \ {ProcColor(1)} }

Children == { Num(1), TwoOptions, MixedOptions, TwoScales, IfPlain,
              ProcRepeatChoice(2, TwoOptions), ProcRestrictCombinations(1, TwoOptions),
              List(<<TwoOptions, Num(2)>>) }
ChildTuples == { <<>> } \cup SeqsUpTo(Children, MaxChildren)
FieldNames == << "name", "sizes", "colors" >>
Structurals ==
    UNION { { List(c), Dict(SubSeq(FieldNames, 1, Len(c)), c),
              Tag("Item", SubSeq(FieldNames, 1, Len(c)), c) } : c \in ChildTuples }

\* every variant of the data model
Nodes == Scalars \cup { Vec, RGB(Num(1), Num(2), Num(3)), Range(0, 10) }
           \cup ProcLists \cup ProcListsLabelled \cup ProcColors \cup ProcVectors
           \cup RepeatChoices \cup RestrictCombinations
           \cup { IfPlain, IfLabelsPlain, IfLabelsDefault } \cup Structurals

----------------------------------------------------------------------------
(* The engine operations, applied to one node *)

NoResult == [op |-> "none"]

OpCount ==
    /\ res' = [op |-> "count", n |-> count_recursive(node)]
    /\ UNCHANGED <<node, genVars, seedVars, lazyVars, bulkVars, againVars>>

OpIterate ==
    /\ \E r \in iterate_variations_recursive(node) : res' = [op |-> "iterate", run |-> r]
    /\ UNCHANGED <<node, genVars, seedVars, lazyVars, bulkVars, againVars>>

OpSample ==
    /\ \E d \in sample_recursive(node) : res' = [op |-> "sample", out |-> d]
    /\ UNCHANGED <<node, genVars, seedVars, lazyVars, bulkVars, againVars>>

OpDispatch ==
    /\ res' = [op |-> "dispatch", handler |-> get_node_handler(node)]
    /\ UNCHANGED <<node, genVars, seedVars, lazyVars, bulkVars, againVars>>

OpExplain ==
    /\ res' = [op |-> "explain", out |-> explain_count_recursive(node)]
    /\ UNCHANGED <<node, genVars, seedVars, lazyVars, bulkVars, againVars>>

GenIdle ==
    /\ template = None /\ mode = "none" /\ amount = 0 /\ pc = "idle" /\ pulled = 0
    /\ full_iterator = <<>> /\ variation = None /\ meta = MetaRec(<<>>) /\ todo = <<>>
    /\ yielded = <<>> /\ template_meta = <<>> /\ last = [op |-> "none"] /\ exc = NoExc

\* no run started
NoRuns == sessions = <<>> /\ frames = <<>> /\ batch = <<>> /\ earlier = <<>>

InitOps == node \in Nodes /\ res = NoResult /\ GenIdle /\ NoRuns

NextOps == OpCount \/ OpIterate \/ OpSample \/ OpDispatch \/ OpExplain

SpecOps == InitOps /\ [][NextOps]_vars

----------------------------------------------------------------------------
(* Construction of the conditional tags, as CustomMappingTag.construct calls them *)

MaxCases == 2       \* length of cases / then / labels in a constructor call

UpTo(n, x) == [i \in 1..n |-> x]
CallLabels == { None } \cup { List(UpTo(k, Str(<<"L">>))) : k \in 0..MaxCases }
Call(tag, kwargs) == [cls |-> "call", tag |-> tag, kwargs |-> kwargs]
ProcIfCalls ==
    { Call("ProcIf", [value |-> Str(<<"foo", ".", "size">>), cases |-> UpTo(c, Num(1)),
                      then |-> UpTo(t, Num(7)), default |-> d, labels |-> l,
                      default_label |-> None])
        : c \in 0..MaxCases, t \in 0..MaxCases, d \in {None, Num(9)}, l \in CallLabels }
ProcIfLabelsCalls ==
    { Call("ProcIfLabels", [value |-> Str(<<"foo", ".", "size">>), cases |-> UpTo(c, Num(1)),
                            labels |-> l, default |-> d])
        : c \in 0..MaxCases, d \in {None, Str(<<"other">>)}, l \in CallLabels \ {None} }
Calls == ProcIfCalls \cup ProcIfLabelsCalls

OpConstructProcIf ==
    /\ node.tag = "ProcIf"
    /\ res' = [op |-> "construct",
               out |-> ProcIf_init(node.kwargs.value, node.kwargs.cases, node.kwargs.then,
                                   node.kwargs.default, node.kwargs.labels,
                                   node.kwargs.default_label)]
    /\ UNCHANGED <<node, genVars, seedVars, lazyVars, bulkVars, againVars>>

OpConstructProcIfLabels ==
    /\ node.tag = "ProcIfLabels"
    /\ res' = [op |-> "construct",
               out |-> ProcIfLabels_init(node.kwargs.value, node.kwargs.cases,
                                         node.kwargs.labels, node.kwargs.default)]
    /\ UNCHANGED <<node, genVars, seedVars, lazyVars, bulkVars, againVars>>

\* what expanding the node just constructed gives
OpExpand ==
    /\ res.op = "construct" /\ ~IsExc(res.out)
    /\ \E d \in sample_recursive(res.out) :
          res' = [op |-> "expand", out |-> d, count |-> count_recursive(res.out)]
    /\ UNCHANGED <<node, genVars, seedVars, lazyVars, bulkVars, againVars>>

InitTags == node \in Calls /\ res = NoResult /\ GenIdle /\ NoRuns

NextTags == OpConstructProcIf \/ OpConstructProcIfLabels \/ OpExpand

SpecTags == InitTags /\ [][NextTags]_vars

----------------------------------------------------------------------------
(* core.py: generate(mode, template, amount), a generator.  pc is where it stands: *)
(* "start" (not yet pulled), "next" (about to take the next variation), "walk"     *)
(* (walk_tree running), "labels" (the proc_labels rules running, then the yield),  *)
(* "done" (returned), "raised".                                                    *)

\* WithTemplateMeta.get_proc_meta() or TemplateMeta.default(): the proc_labels rules
get_proc_meta(t) ==
    IF HasKey(t, "proc_meta") /\ Field(t, "proc_meta") # None
         /\ HasKey(Field(t, "proc_meta"), "proc_labels")
      THEN Field(Field(t, "proc_meta"), "proc_labels").items
      ELSE <<>>

\* WithTemplateMeta.del_proc_meta() leaving the attribute where it is
del_proc_meta_kept(t) == t

\* WithTemplateMeta.del_proc_meta()
del_proc_meta(t) ==
    LET keep == { i \in DOMAIN t.keys : t.keys[i] # "proc_meta" }
        nth(k) == CHOOSE i \in keep : Cardinality({ j \in keep : j < i }) = k - 1
    IN [t EXCEPT !.keys = [k \in 1..Cardinality(keep) |-> t.keys[nth(k)]],
                 !.vals = [k \in 1..Cardinality(keep) |-> t.vals[nth(k)]]]

\* The next item of full_iterator holds the objects the previous one held wherever
\* the same allocation went into both: a placeholder filled then is filled now.
RECURSIVE Adopt(_, _)
Adopt(new, prev) ==
    IF new.cls = "MutablePlaceholder"
      THEN IF prev.cls = "MutablePlaceholder" /\ prev.obj = new.obj /\ prev.proc_if = new.proc_if
             THEN prev ELSE new
    ELSE IF new.cls # prev.cls THEN new
    ELSE IF "items" \in DOMAIN new /\ Len(new.items) = Len(prev.items)
      THEN [new EXCEPT !.items = [i \in DOMAIN new.items |-> Adopt(new.items[i], prev.items[i])]]
    ELSE IF "vals" \in DOMAIN new /\ Len(new.vals) = Len(prev.vals)
      THEN [new EXCEPT !.vals = [i \in DOMAIN new.vals |-> Adopt(new.vals[i], prev.vals[i])]]
    ELSE new

\* what walk_tree has still to visit: a position of the variation, or a node that
\* handler.children built
Visit(at, n) == [at |-> at, node |-> n]
VisitChildren(at, n, childs) ==
    IF at # Detached /\ Slots(n) = childs
      THEN [i \in DOMAIN childs |-> Visit(at \o <<i>>, None)]
      ELSE [i \in DOMAIN childs |-> Visit(Detached, childs[i])]

\* the first pull: lines 57-66
GenStart ==
    /\ pc = "start"
    /\ template_meta' = get_proc_meta(template)
    /\ template' = del_proc_meta(template)
    /\ IF mode = "sample"
         THEN pc' = "next" /\ exc' = NoExc /\ UNCHANGED full_iterator
       ELSE IF mode = "exhaustive"
         THEN /\ \E r \in iterate_variations_recursive(template') : full_iterator' = r
              /\ pc' = "next" /\ exc' = NoExc
       ELSE pc' = "raised" /\ exc' = Exc("ValueError", None) /\ UNCHANGED full_iterator
    /\ UNCHANGED <<opVars, seedVars, lazyVars, bulkVars, againVars, mode, amount, pulled, variation, meta, todo, yielded, last>>

\* for (variation, meta) in variations: the generator expression gives its next item,
\* ends after `amount` items, or lets an exception out
GenNext ==
    /\ pc = "next"
    /\ IF pulled = amount
         THEN /\ pc' = "done"
              /\ UNCHANGED <<pulled, full_iterator, variation, meta, todo, exc>>
       ELSE IF mode = "sample"
         THEN \E d \in sample_recursive(template) :
                IF IsExc(d.value)
                  THEN /\ pc' = "raised" /\ exc' = d.value
                       /\ UNCHANGED <<pulled, full_iterator, variation, meta, todo>>
                  ELSE /\ variation' = Mark(d.value, pulled + 1) /\ meta' = d.meta
                       /\ todo' = << Visit(<<>>, None) >>
                       /\ pulled' = pulled + 1 /\ pc' = "walk"
                       /\ UNCHANGED <<full_iterator, exc>>
       ELSE IF full_iterator.items = <<>>
         \* next(full_iterator) inside a generator: StopIteration comes out as RuntimeError
         THEN /\ pc' = "raised"
              /\ exc' = IF full_iterator.exc # NoExc THEN full_iterator.exc
                        ELSE Exc("RuntimeError", None)
              /\ UNCHANGED <<pulled, full_iterator, variation, meta, todo>>
       ELSE /\ variation' = Adopt(Head(full_iterator.items).value, variation)
            /\ meta' = Head(full_iterator.items).meta
            /\ full_iterator' = Run(Tail(full_iterator.items), full_iterator.exc)
            /\ todo' = << Visit(<<>>, None) >>
            /\ pulled' = pulled + 1 /\ pc' = "walk"
            /\ UNCHANGED exc
    /\ last' = [op |-> "none"]
    /\ UNCHANGED <<opVars, seedVars, lazyVars, bulkVars, againVars, template, mode, amount, yielded, template_meta>>

\* walk_tree(variation, fill_placeholder): the callback on the next node, then its children
GenWalk ==
    /\ pc = "walk"
    /\ todo # <<>>
    /\ LET at == Head(todo).at
           n == IF at # Detached THEN NodeAt(variation, at) ELSE Head(todo).node
       IN IF ~isinstance(n, "MutablePlaceholder")
            THEN LET handler == get_node_handler(n)
                 IN IF handler = NoHandler
                      THEN /\ pc' = "raised" /\ exc' = Exc("ValueError", None)
                           /\ last' = [op |-> "visit"]
                           /\ UNCHANGED <<variation, meta, todo>>
                      ELSE /\ todo' = VisitChildren(at, n, children(handler, n)) \o Tail(todo)
                           /\ pc' = IF todo' = <<>> THEN "labels" ELSE "walk"
                           /\ last' = [op |-> "visit"]
                           /\ UNCHANGED <<variation, meta, exc>>
          ELSE IF is_filled(n)
            THEN /\ meta' = add_label(meta, n.label)
                 /\ todo' = Tail(todo)
                 /\ pc' = IF todo' = <<>> THEN "labels" ELSE "walk"
                 /\ last' = [op |-> "filled", at |-> at, label |-> n.label, before |-> meta]
                 /\ UNCHANGED <<variation, exc>>
          ELSE \E f \in { fill(variation, at, 0) } : \E ph \in { NodeAt(f.root, at) } :
                  /\ last' = [op |-> "fill", at |-> at, proc_if |-> n.proc_if, root |-> variation,
                              exc |-> f.exc, value |-> ph.value, label |-> ph.label,
                              before |-> meta]
                  /\ IF f.exc # NoExc
                       THEN /\ pc' = "raised" /\ exc' = f.exc
                            /\ UNCHANGED <<variation, meta, todo>>
                       ELSE /\ variation' = f.root
                            /\ meta' = add_label(meta, ph.label)
                            /\ todo' = Tail(todo)
                            /\ pc' = IF todo' = <<>> THEN "labels" ELSE "walk"
                            /\ UNCHANGED exc
    /\ UNCHANGED <<opVars, seedVars, lazyVars, bulkVars, againVars, template, mode, amount, pulled, full_iterator, yielded, template_meta>>

\* [ProcIfLabels.resolve(pil, variation, meta) for pil in template_meta.proc_labels]:
\* the rule after the `todo` rules already applied
GenLabels ==
    /\ pc = "labels"
    /\ Len(todo) < Len(template_meta)
    /\ \E pil \in { template_meta[Len(todo) + 1] } :
       \E r \in { ProcIfLabels_resolve(pil, variation, meta) } :
          /\ last' = [op |-> "rule", rule |-> pil, root |-> variation, exc |-> r.exc,
                      before |-> meta]
          /\ IF r.exc # NoExc
               THEN pc' = "raised" /\ exc' = r.exc /\ UNCHANGED <<variation, meta, todo>>
               ELSE /\ variation' = r.root /\ meta' = r.meta
                    /\ todo' = Append(todo, pil)
                    /\ UNCHANGED <<pc, exc>>
    /\ UNCHANGED <<opVars, seedVars, lazyVars, bulkVars, againVars, template, mode, amount, pulled, full_iterator, yielded, template_meta>>

\* yield variation, meta
GenYield ==
    /\ pc = "labels"
    /\ Len(todo) = Len(template_meta)
    /\ yielded' = Append(yielded, Pair(variation, meta))
    /\ todo' = <<>>
    /\ pc' = "next"
    /\ UNCHANGED <<opVars, seedVars, lazyVars, bulkVars, againVars, template, mode, amount, pulled, full_iterator, variation, meta,
                   template_meta, last, exc>>

----------------------------------------------------------------------------
(* The template documents generate runs on *)

\* variable references, as the tokens of the string
SizeRef == Str(<<"foo", ".", "sizes", ".", "0">>)
NameRef == Str(<<"foo", ".", "name">>)
BadRefs == { Str(<<"nope", ".", "name">>),                       \* no such id
             Str(<<"foo", ".", "colors">>),                      \* no such field
             Str(<<"foo", ".", "sizes", ".", "5">>),             \* index out of range
             Str(<<"foo", ".", "sizes", ".", "0", ".", "0">>),   \* index into an int
             Str(<<"foo", ".", "name", ".", "0">>),              \* index into a str
             Str(<<"foo", ".", "name", ".", "x">>) }             \* field of a str

CaseLists == { <<Num(1)>>, <<Range(1, 2), Num(1)>>, <<Num(2), Range(2, 3)>>, <<Num(3)>> }
Thens(cases) == [i \in DOMAIN cases |-> Str(<<"t", Digits[i + 1]>>)]
LabelsFor(cases) == List([i \in DOMAIN cases |-> Str(<<"L", Digits[i + 1]>>)])
DefaultValue == Str(<<"d">>)
DefaultLabel == Str(<<"D">>)

\* !ProcIf on the first size of item foo
SizeConds ==
    UNION { { ProcIf(SizeRef, cases, Thens(cases), default, labels, default_label) :
                default \in {None, DefaultValue}, labels \in {None, LabelsFor(cases)},
                default_label \in {None, DefaultLabel} } : cases \in CaseLists }
      \cup { ProcIf(SizeRef, <<Num(3)>>, Thens(<<Num(3)>>), DefaultValue, List(<<>>), dl)
               : dl \in {None, DefaultLabel} }
\* !ProcIf on references that fail, or that reach into a scalar
RefConds ==
    { ProcIf(ref, <<c>>, Thens(<<c>>), DefaultValue, None, None)
        : ref \in BadRefs, c \in {Num(1), Str(<<"a">>)} }
\* !ProcIf on two variables
PairConds ==
    { ProcIf(List(<<SizeRef, NameRef>>), cases, Thens(cases), None, None, None) :
        cases \in { << List(<<Num(2), Str(<<"a">>)>>), List(<<Range(1, 2), Str(<<"a">>)>>) >>,
                    << List(<<Num(1), Str(<<"b">>)>>) >>,
                    << Num(1) >> } }

ItemFoo(size) == Tag("Item", <<"id", "name", "sizes">>,
                     <<Str(<<"foo">>), Str(<<"a">>), List(<<size>>)>>)
ItemBar(cond) == Tag("Item", <<"id", "name">>, <<Str(<<"bar">>), cond>>)
ItemBaz(cond) == Tag("Item", <<"name">>, <<cond>>)

\* !ProcIf on the name of item bar, itself a !ProcIf
OnBar == ProcIf(Str(<<"bar", ".", "name">>), <<Str(<<"t", "1">>)>>, <<Str(<<"u">>)>>,
                DefaultValue, None, None)
\* !ProcIf on a character of the name of item bar
OnBarChar == ProcIf(Str(<<"bar", ".", "name", ".", "0">>), <<Str(<<"t">>)>>, <<Str(<<"u">>)>>,
                    DefaultValue, None, None)
BarCond == ProcIf(SizeRef, <<Num(1)>>, <<Str(<<"t", "1">>)>>, DefaultValue,
                  List(<<Str(<<"L", "1">>)>>), DefaultLabel)

\* !ProcIf on the name of item bar that fails: no case matches and there is no
\* default; no item has the id
BarNoCase == ProcIf(SizeRef, <<Num(3)>>, <<Str(<<"t", "1">>)>>, None, None, None)
BarNoId == ProcIf(Str(<<"nope", ".", "name">>), <<Num(1)>>, <<Str(<<"t", "1">>)>>, None, None, None)

\* !ProcIf whose then value and default are mutable nodes
VecCond == ProcIf(SizeRef, <<Num(1)>>, <<Vec>>, List(<<Num(7)>>), None, None)

Sizes == { Num(1), TwoOptions }
\* sizes that attach a label
LabelledSizes == { ProcListLabelled(<<new_labelled_option(Str(<<"one">>), Num(1)),
                                      new_labelled_option(Str(<<"two">>), Num(2))>>),
                   ProcVector3Scaled(None, <<1, 2>>, ScaleLabels(<<1, 2>>)) }

ItemLists ==
    UNION { { <<ItemFoo(size), ItemBar(c)>>, <<ItemBar(c), ItemFoo(size)>> }
              : size \in Sizes, c \in SizeConds \cup RefConds \cup PairConds }
      \cup UNION { { <<ItemFoo(size), ItemBar(BarCond), ItemBaz(c)>>,
                     <<ItemFoo(size), ItemBaz(c), ItemBar(BarCond)>>,
                     <<ItemBaz(c), ItemBar(BarCond), ItemFoo(size)>> }
                     : size \in Sizes, c \in {OnBar, OnBarChar} }
      \cup { <<ItemFoo(size), ItemBar(VecCond)>> : size \in Sizes }
      \cup { <<ItemFoo(size), ItemBar(BarCond)>> : size \in LabelledSizes }
      \cup { <<ItemFoo(Num(1)), ItemBar(OnBar)>>,                \* refers to itself
             <<ItemFoo(OnBar), ItemBar(BarCond)>>,               \* refer to each other
             <<ItemFoo(Num(1)), ItemBaz(OnBar), ItemBar(BarNoCase)>>,
             <<ItemFoo(Num(1)), ItemBaz(OnBar), ItemBar(BarNoId)>>,
             <<ItemFoo(ProcRepeatChoice(2, BarCond))>>,
             <<ItemFoo(ProcRestrictCombinations(2, TwoOptions)), ItemBar(BarCond)>> }

\* proc_meta.proc_labels
Rule(default) == ProcIfLabels(SizeRef, <<Num(1)>>, List(<<Str(<<"one">>)>>), default)
NameRule == ProcIfLabels(NameRef, <<Str(<<"a">>)>>, List(<<Str(<<"named">>)>>), None)
\* a rule on the name of item bar, which a !ProcIf gives
BarRule(default) ==
    ProcIfLabels(Str(<<"bar", ".", "name">>), <<Str(<<"t", "1">>)>>, List(<<Str(<<"isT1">>)>>),
                 default)
RuleLists == { <<Rule(None)>>, <<Rule(Str(<<"other">>))>>, <<NameRule, Rule(Str(<<"other">>))>>,
               <<Rule(None), NameRule>>, <<BarRule(Str(<<"other">>)), NameRule>>,
               <<BarRule(None)>> }

Arenas(items) == Dict(<<"#0">>, << Tag("Arena", <<"items">>, <<List(items)>>) >>)
Document(items) == Tag("ArenaConfig", <<"arenas">>, <<Arenas(items)>>)
DocumentWithMeta(items, rules) ==
    Tag("ArenaConfig", <<"arenas", "proc_meta">>,
        <<Arenas(items), Dict(<<"proc_labels">>, <<List(rules)>>)>>)

Templates ==
    { Document(items) : items \in ItemLists }
      \cup { DocumentWithMeta(<<ItemFoo(size), ItemBar(BarCond)>>, rules)
               : size \in Sizes, rules \in RuleLists }

Modes == { "sample", "exhaustive", "frozen" }

Init ==
    /\ node = None /\ res = NoResult
    /\ template \in Templates
    /\ mode \in Modes
    /\ amount \in 0..MaxGenerate
    /\ pc = "start" /\ pulled = 0 /\ full_iterator = Run(<<>>, None)
    /\ variation = None /\ meta = MetaRec(<<>>) /\ todo = <<>> /\ yielded = <<>>
    /\ template_meta = <<>> /\ last = [op |-> "none"] /\ exc = NoExc
    /\ NoRuns

Next == GenStart \/ GenNext \/ GenWalk \/ GenLabels \/ GenYield

Spec == Init /\ [][Next]_vars

----------------------------------------------------------------------------
(* Two runs of the program on one document: each starts with `random` in a state *)
(* of its own, calls init(seed), then samples the document again and again.      *)

MaxSeed == 2        \* seeds and initial states of `random` are 0..MaxSeed
MaxCalls == 2       \* sample calls of one run

SeedDocs == { TwoOptions, List(<<TwoOptions, TwoScales>>), ProcColor(1),
              ProcRepeatChoice(2, MixedOptions), ProcRestrictCombinations(2, TwoOptions),
              Document(<<ItemFoo(TwoOptions), ItemBar(BarCond)>>) }

NewRun(seed, random) == [seed |-> seed, random |-> random, pc |-> "fresh", out |-> <<>>]

RunInit(r) ==
    /\ sessions[r].pc = "fresh"
    /\ sessions' = [sessions EXCEPT ![r].random = init(sessions[r].seed, sessions[r].random),
                            ![r].pc = "ready"]
    /\ UNCHANGED <<opVars, genVars, lazyVars, bulkVars, againVars>>

RunSample(r) ==
    /\ sessions[r].pc = "ready"
    /\ Len(sessions[r].out) < MaxCalls
    /\ \E d \in { sample_seeded(node, sessions[r].random) } :
          sessions' = [sessions EXCEPT ![r].random = d.random, ![r].out = Append(@, d.out)]
    /\ UNCHANGED <<opVars, genVars, lazyVars, bulkVars, againVars>>

InitSeed ==
    /\ node \in SeedDocs /\ res = NoResult /\ GenIdle
    /\ \E s1, s2, e1, e2 \in 0..MaxSeed :
          e1 # e2 /\ sessions = << NewRun(s1, e1), NewRun(s2, e2) >>
    /\ frames = <<>> /\ batch = <<>> /\ earlier = <<>>

NextSeed == \E r \in 1..2 : RunInit(r) \/ RunSample(r)

SpecSeed == InitSeed /\ [][NextSeed]_vars

----------------------------------------------------------------------------
(* The loop of ConditionResolver.resolve over the cases, on values already found *)

MaxValues == 2      \* variables of one conditional, and sub-values of one case

FoundValues == { Num(1), Num(2), Num(3), Str(<<"a">>) }
TestValues == { Range(1, 2), Num(1), Str(<<"a">>) }
\* a case is one test value, or a list of them
MatchCases == TestValues \cup { List(t) : t \in SeqsUpTo({ Range(1, 2), Str(<<"a">>) }, MaxValues) }

\* the values of the variables and the cases they are compared with
MatchCalls ==
    { [cls |-> "resolve", values |-> values, cases |-> cases]
        : values \in SeqsUpTo(FoundValues, MaxValues), cases \in SeqsUpTo(MatchCases, MaxCases) }

\* for idx, case in enumerate(cases): ...
OpResolve ==
    /\ res' = [op |-> "resolve", out |-> first_match(node.values, node.cases, 1)]
    /\ UNCHANGED <<node, genVars, seedVars, lazyVars, bulkVars, againVars>>

\* __matches(v1, v2) for one pair of zip(values, case), case being the first one
OpMatches ==
    /\ LET case == IF isinstance(node.cases[1], "list") THEN node.cases[1].items
                    ELSE <<node.cases[1]>>
       IN \E j \in DOMAIN case \cap DOMAIN node.values :
            res' = [op |-> "matches", v_var |-> node.values[j], v_case |-> case[j],
                    out |-> matches(node.values[j], case[j])]
    /\ UNCHANGED <<node, genVars, seedVars, lazyVars, bulkVars, againVars>>

InitMatch == node \in MatchCalls /\ res = NoResult /\ GenIdle /\ NoRuns

NextMatch == OpResolve \/ OpMatches

SpecMatch == InitMatch /\ [][NextMatch]_vars

----------------------------------------------------------------------------
(* Claims about the engine operations (checked under SpecOps) *)

\* whether a node of class c is reached from n through handler.children
RECURSIVE Contains(_, _)
Contains(n, c) ==
    \/ n.cls = c
    \/ LET handler == get_node_handler(n)
       IN handler # NoHandler /\
          \E i \in DOMAIN children(handler, n) : Contains(children(handler, n)[i], c)

StructuralClasses == {"list", "dict", "ArenaConfig", "Arena", "Item", "Vector3", "RGB"}
CombinatorialClasses == {"ProcList", "ProcListLabelled", "ProcColor", "ProcVector3Scaled",
                         "ProcRepeatChoice"}

\* C1: for a combinatorial node, or a structural node built from them, with no
\* !ProcRestrictCombinations inside, count equals the number of items iterate yields.
C1_CountEqualsIterate ==
    ( /\ res.op = "iterate"
      /\ node.cls \in CombinatorialClasses \cup StructuralClasses
      /\ ~Contains(node, "ProcRestrictCombinations") )
    => count_recursive(node) = Len(res.run.items)

\* the one run of a node whose iteration is deterministic
TheRun(n) == CHOOSE r \in iterate_variations_recursive(n) : TRUE

RECURSIVE LenProduct(_)
LenProduct(runs) == IF runs = <<>> THEN 1 ELSE Len(Head(runs).items) * LenProduct(Tail(runs))

\* the index in child j's run of the item that combination p holds: the children
\* after j vary faster than j
LexIndex(runs, p, j) ==
    (((p - 1) \div LenProduct(SubSeq(runs, j + 1, Len(runs)))) % Len(runs[j].items)) + 1

C2_Applies ==
    /\ res.op = "iterate"
    /\ node.cls \in {"list", "dict", "Item"}
    /\ ~Contains(node, "ProcRestrictCombinations")
    /\ \A i \in DOMAIN node[IF node.cls = "list" THEN "items" ELSE "vals"] :
          TheRun(node[IF node.cls = "list" THEN "items" ELSE "vals"][i]).exc = None

\* C2: a structural node whose children yield k1..kn items yields k1*...*kn
\* combinations, the last child varying fastest; with no child, one empty combination.
C2_ProductOrder ==
    C2_Applies =>
      LET childs == children(get_node_handler(node), node)
          runs == [i \in DOMAIN childs |-> TheRun(childs[i])]
          got == res.run.items
      IN /\ res.run.exc = None
         /\ Len(got) = LenProduct(runs)
         /\ \A p \in DOMAIN got :
              LET kids == IF node.cls = "list" THEN got[p].value.items ELSE got[p].value.vals
              IN /\ Len(kids) = Len(childs)
                 /\ \A j \in DOMAIN childs : Same(kids[j], runs[j].items[LexIndex(runs, p, j)].value)
                 /\ got[p].meta.labels
                      = FlattenLabels([j \in DOMAIN childs |-> runs[j].items[LexIndex(runs, p, j)]])
         /\ (childs = <<>> => Len(got) = 1 /\ got[1].meta.labels = <<>>)

C2_Witness ==
    /\ res.op = "iterate"
    /\ node = List(<<TwoOptions, TwoScales>>)
    /\ Len(res.run.items) = 4
    /\ res.run.items[2].value.items[1] = Num(1)
    /\ res.run.items[2].value.items[2].vals = <<Num(2), Num(2), Num(2)>>

\* C8: every node variant is accepted by exactly one handler, so get_node_handler
\* never raises.
C8_DispatchTotal ==
    res.op = "dispatch" =>
      /\ Cardinality({ i \in DOMAIN HANDLERS : can_handle(HANDLERS[i], node) }) = 1
      /\ res.handler # NoHandler

\* the values iterate or sample of n may produce
Choices(n) ==
    { d.value : d \in sample_recursive(n) }
      \cup UNION { { r.items[i].value : i \in DOMAIN r.items } : r \in iterate_variations_recursive(n) }

IsRepeatOf(value, n) ==
    /\ value.cls = "list"
    /\ Len(value.items) = n.amount
    /\ \E c \in Choices(n.value) : \A i \in DOMAIN value.items : Same(value.items[i], c)
    /\ \A i, j \in DOMAIN value.items :
         (i # j /\ "obj" \in DOMAIN value.items[i]) => value.items[i].obj # value.items[j].obj

\* C9: a !ProcRepeatChoice of amount n counts as the wrapped node does, and every
\* value iterate or sample produces is a list of exactly n equal, pairwise distinct copies
\* of one choice of the wrapped node.
C9_RepeatChoice ==
    node.cls = "ProcRepeatChoice" =>
      /\ res.op = "count" => res.n = count_recursive(node.value)
      /\ res.op = "iterate" => \A i \in DOMAIN res.run.items : IsRepeatOf(res.run.items[i].value, node)
      /\ res.op = "sample" => IsRepeatOf(res.out.value, node)

SamePair(a, b) == Same(a.value, b.value) /\ a.meta = b.meta

\* the items of a run by content, whatever objects hold it
ByContent(items) == [i \in DOMAIN items |-> Pair(Restamp(items[i].value, <<>>), items[i].meta)]

\* C10: a !ProcRestrictCombinations counts `amount`; iterate yields exactly `amount`
\* items, each one a sample of the wrapped node, in any combination (any item of a run
\* can be any other sample); sample is one sample of the wrapped node, whatever `amount` is.
C10_RestrictCombinations ==
    node.cls = "ProcRestrictCombinations" =>
      /\ res.op = "count" => res.n = node.amount
      /\ res.op = "iterate" =>
           /\ res.run.exc = None
           /\ Len(res.run.items) = node.amount
           /\ \A i \in DOMAIN res.run.items :
                \E d \in sample_recursive(node.item) : SamePair(res.run.items[i], d)
           /\ \E runs \in { { ByContent(r.items) : r \in iterate_variations_recursive(node) } } :
              \E samples \in { { ByContent(<<d>>)[1] : d \in sample_recursive(node.item) } } :
                \A i \in DOMAIN res.run.items : \A d \in samples :
                   [ByContent(res.run.items) EXCEPT ![i] = d] \in runs
      /\ res.op = "sample" =>
           /\ res.out \in sample_recursive(node.item)
           /\ \A a \in 0..MaxAmount :
                sample_recursive([node EXCEPT !.amount = a]) = sample_recursive(node.item)

\* iterate gave two items that no prefix of the wrapped node's own iteration holds
C10_Witness ==
    /\ res.op = "iterate"
    /\ node = ProcRestrictCombinations(2, TwoOptions)
    /\ res.run.items = <<Pair(Num(2), MetaRec(<<>>)), Pair(Num(2), MetaRec(<<>>))>>

\* the combinatorial tags reached from n through structural nodes, in tree order
RECURSIVE ReachedTags(_)
RECURSIVE ReachedIn(_)
ReachedIn(childs) ==
    IF childs = <<>> THEN <<>> ELSE ReachedTags(Head(childs)) \o ReachedIn(Tail(childs))
ReachedTags(n) ==
    IF n.cls \in {"ProcIf", "ProcIfLabels"} THEN <<>>
    ELSE IF n.cls \in CombinatorialClasses \cup {"ProcRestrictCombinations"} THEN <<n>>
    ELSE ReachedIn(children(get_node_handler(n), n))

\* the pieces of a string between the separators
RECURSIVE SplitOn(_, _)
SplitOn(toks, sep) ==
    IF toks = <<>> THEN << <<>> >>
    ELSE LET rest == SplitOn(Tail(toks), sep)
         IN IF Head(toks) = sep THEN << <<>> >> \o rest
            ELSE << <<Head(toks)>> \o Head(rest) >> \o Tail(rest)

NoVariations == Str(<<"No variations">>)
Factors(out) == IF out = NoVariations THEN <<>> ELSE SplitOn(out.v, " x ")
\* a factor reads count#tag
IsFactor(f) == Len(f) >= 3 /\ f[Len(f) - 1] = "#" /\ isdigit(SubSeq(f, 1, Len(f) - 2))
FactorCount(f) == int(SubSeq(f, 1, Len(f) - 2))
FactorTag(f) == f[Len(f)]

\* C11: explain lists one factor count#tag per combinatorial tag reached through
\* structural nodes, joined by " x ", never a !ProcIf or !ProcIfLabels; it is
\* "No variations" exactly when there is no factor; the factors multiply to count.
C11_Explain ==
    (res.op = "explain" /\ count_recursive(node) # CountError) =>
      LET tags == ReachedTags(node)
          factors == Factors(res.out)
      IN /\ ~IsExc(res.out)
         /\ (res.out = NoVariations) <=> (tags = <<>>)
         /\ Len(factors) = Len(tags)
         /\ \A i \in DOMAIN factors :
               /\ IsFactor(factors[i])
               /\ FactorCount(factors[i]) = count_recursive(tags[i])
               /\ FactorTag(factors[i]) = tag_of(tags[i])
               /\ FactorTag(factors[i]) \notin {"ProcIf", "ProcIfLabels"}
         /\ SeqProduct([i \in DOMAIN factors |-> FactorCount(factors[i])]) = count_recursive(node)

\* a !ProcIf before a !ProcList: one factor, nothing for the !ProcIf
C11_Witness ==
    /\ res.op = "explain"
    /\ node = List(<<IfPlain, TwoOptions>>)
    /\ res.out = Str(<<"2", "#", "ProcList">>)

\* C14: sample and iterate of a !ProcIfLabels fail at once with an exception that is
\* not a ProcGenError; its count is 1.
C14_LabelsOnlyNode ==
    node.cls = "ProcIfLabels" =>
      /\ res.op = "sample" => (IsExc(res.out.value) /\ ~IsProcGenError(res.out.value))
      /\ res.op = "iterate" =>
            (res.run.items = <<>> /\ IsExc(res.run.exc) /\ ~IsProcGenError(res.run.exc))
      /\ res.op = "count" => res.n = 1

C14_Witness ==
    /\ node = IfLabelsDefault
    /\ res.op = "sample"
    /\ res.out.value = Exc("ValueError", None)

\* the (value, labels) results sample may return for n
Returned(n) == { d \in sample_recursive(n) : ~IsExc(d.value) }

\* the (value, labels) results the iterations of n yield
Yielded(n) ==
    UNION { { r.items[i] : i \in DOMAIN r.items } : r \in iterate_variations_recursive(n) }

\* C17: for a node with no !ProcRestrictCombinations inside, sample returns only results
\* that iterate yields, and every result iterate yields can be returned by sample.
C17_SampleIsIterate ==
    (res.op \in {"sample", "iterate"} /\ ~Contains(node, "ProcRestrictCombinations")) =>
      /\ \A d \in Returned(node) : \E y \in Yielded(node) : SamePair(d, y)
      /\ \A y \in Yielded(node) : \E d \in Returned(node) : SamePair(d, y)

C17_Witness ==
    /\ res.op = "sample"
    /\ node = List(<<TwoOptions, TwoScales>>)
    /\ res.out.value.items[1] = Num(2)
    /\ res.out.value.items[2].vals = <<Num(2), Num(2), Num(2)>>
    /\ Cardinality(Returned(node)) = 4
    /\ \E y \in Yielded(node) : SamePair(res.out, y)

\* the parts of a structural value, in the order of the node's children
Parts(v) == IF v.cls = "list" THEN v.items ELSE v.vals

\* the distinct values (by content) the i-th child of the node took in the run
DistinctAt(run, i) == { Restamp(Parts(run.items[k].value)[i], <<>>) : k \in DOMAIN run.items }

\* C18: in one exhaustive iteration of a structure, a !ProcRestrictCombinations child
\* with cap `amount` takes at most `amount` distinct values, at whatever position.
C18_CapAtAnyPosition ==
    (res.op = "iterate" /\ node.cls \in {"list", "dict", "Item"}) =>
      LET childs == children(get_node_handler(node), node)
      IN \A i \in DOMAIN childs :
           childs[i].cls = "ProcRestrictCombinations" =>
             Cardinality(DistinctAt(res.run, i)) <= childs[i].amount

StructuralHandlers == {"PlainSequence", "PlainMapping", "AnimalAISequence", "AnimalAIMapping"}

\* the product of the counts of the children; count raises when the count of a child does
ProductOfChildren(n) ==
    LET childs == children(get_node_handler(n), n)
    IN IF \E i \in DOMAIN childs : count_recursive(childs[i]) = CountError THEN CountError
       ELSE SeqProduct([i \in DOMAIN childs |-> count_recursive(childs[i])])

\* the node with a conditional tag added as its last child
WithConditional(n, cond) ==
    IF n.cls = "list" THEN [n EXCEPT !.items = Append(@, cond)]
    ELSE [n EXCEPT !.keys = Append(@, "cond"), !.vals = Append(@, cond)]

\* count of structural nodes, scalars and conditional tags
CountOfStructure ==
    res.op = "count" =>
      /\ get_node_handler(node) \in StructuralHandlers =>
           /\ res.n = ProductOfChildren(node)
           /\ (children(get_node_handler(node), node) = <<>> => res.n = 1)
           /\ node.cls \in {"list", "dict", "Item"} =>
                \A cond \in {IfPlain, IfLabelsPlain} :
                   count_recursive(WithConditional(node, cond)) = res.n
      /\ get_node_handler(node) \in {"PlainScalar", "AnimalAIScalar"} => res.n = 1
      /\ node.cls \in {"ProcIf", "ProcIfLabels"} => res.n = 1

\* the run is one placeholder, not resolved, for the node, with empty metadata
OnePlaceholder(run, n) ==
    /\ run.exc = None /\ Len(run.items) = 1
    /\ run.items[1].value.cls = "MutablePlaceholder"
    /\ run.items[1].value.proc_if = n
    /\ ~is_filled(run.items[1].value)
    /\ run.items[1].meta = MetaRec(<<>>)

\* C21 as stated: count of a structural node is the product of its children's counts
\* (1 with no child), count of a scalar is 1, a !ProcIf or !ProcIfLabels counts 1 and
\* iterates to exactly one unresolved placeholder with empty metadata, and adding a
\* conditional tag to a node leaves its count as it was.
C21_ConditionalsIterateToPlaceholder ==
    /\ CountOfStructure
    /\ (res.op = "iterate" /\ node.cls \in {"ProcIf", "ProcIfLabels"}) =>
          OnePlaceholder(res.run, node)

\* C21: count of a structural node is the product of its children's counts (1 with no
\* child), count of a scalar is 1, a !ProcIf or !ProcIfLabels counts 1, and adding a
\* conditional tag to a node leaves its count as it was; a !ProcIf iterates to exactly
\* one unresolved placeholder with empty metadata, while the iteration of a
\* !ProcIfLabels raises ValueError with no item.
C21_CountOfConditionals ==
    /\ CountOfStructure
    /\ (res.op = "iterate" /\ node.cls = "ProcIf") => OnePlaceholder(res.run, node)
    /\ (res.op = "iterate" /\ node.cls = "ProcIfLabels") =>
          res.run = Run(<<>>, Exc("ValueError", None))

\* a list of a two-option choice and a conditional counts 2
C21_Witness ==
    /\ res.op = "count"
    /\ node = List(<<TwoOptions, IfPlain>>)
    /\ res.n = 2
    /\ count_recursive(List(<<TwoOptions>>)) = 2

----------------------------------------------------------------------------
(* Claims about generate and the deferred-resolution pass (checked under Spec) *)

Min(a, b) == IF a < b THEN a ELSE b

\* what generate is to yield: `amount` items, or all the root's iteration produces
Expected ==
    IF mode = "sample" THEN amount ELSE Min(amount, pulled + Len(full_iterator.items))

\* C3: generate yields exactly `amount` items in sample mode and min(amount, N) items
\* in exhaustive mode (N: the number of items the root's iteration produces), and then
\* ends normally.
C3_GenerateAmount ==
    /\ pc = "done" => Len(yielded) = Expected
    /\ (mode \in {"sample", "exhaustive"} /\ pc \in {"done", "raised"} /\ Len(yielded) = Expected)
         => pc = "done"

\* a placeholder of the tree is not filled
RECURSIVE Unresolved(_)
Unresolved(v) ==
    IF v.cls = "MutablePlaceholder" THEN v.value = None
    ELSE \E i \in DOMAIN Slots(v) : Unresolved(Slots(v)[i])

RECURSIVE HasPlaceholder(_)
HasPlaceholder(v) ==
    v.cls = "MutablePlaceholder" \/ \E i \in DOMAIN Slots(v) : HasPlaceholder(Slots(v)[i])

\* C4: every variation yielded holds no unresolved placeholder, a variation is yielded
\* only once its pass is over, and a variation whose pass failed is never yielded.
C4_ResolvedBeforeYield ==
    /\ \A i \in DOMAIN yielded : ~Unresolved(yielded[i].value)
    /\ Len(yielded) <= pulled
    /\ pc \in {"walk", "labels"} => Len(yielded) = pulled - 1
    /\ (pc = "raised" /\ last.op \in {"fill", "rule"}) => (last.exc = exc /\ Len(yielded) = pulled - 1)

\* the second variation failed to resolve after the first, resolved, was yielded
C4_Witness ==
    /\ pc = "raised" /\ last.op = "fill" /\ last.exc # NoExc
    /\ Len(yielded) = 1 /\ pulled = 2
    /\ HasPlaceholder(yielded[1].value)

\* Case matching as the condition resolver is to do it: a closed range holds the
\* value (bounds included), a number equals it, anything else is equal to it.
TestMatches(v, t) ==
    IF t.cls = "Range" THEN IsNumber(v) /\ t.min <= NumVal(v) /\ NumVal(v) <= t.max
    ELSE IF IsNumber(t) THEN IsNumber(v) /\ NumVal(v) = NumVal(t)
    ELSE v.cls = "str" /\ t.cls = "str" /\ v.v = t.v

SubValues(case) == IF case.cls = "list" THEN case.items ELSE <<case>>

CaseMatches(values, case) ==
    /\ Len(SubValues(case)) = Len(values)
    /\ \A j \in DOMAIN values : TestMatches(values[j], SubValues(case)[j])

\* the comparisons of a case can be made: as many sub-values as variables, and a
\* number wherever a range or a number is compared (up to the first that fails)
CaseEvaluates(values, case) ==
    /\ Len(SubValues(case)) = Len(values)
    /\ \A j \in DOMAIN values :
         (\A k \in 1..(j - 1) : TestMatches(values[k], SubValues(case)[k]))
           => (SubValues(case)[j].cls = "Range" \/ IsNumber(SubValues(case)[j])
                 => IsNumber(values[j]))

\* the variables of a conditional and the values they resolve to against a root
Variables(n) == IF n.value.cls = "list" THEN n.value.items ELSE <<n.value>>
Resolved(n, root) == find_all(Variables(n), root, 0)
Matching(n, root) ==
    { i \in DOMAIN n.cases : CaseMatches(Resolved(n, root).values, n.cases[i]) }
First(S) == CHOOSE i \in S : \A j \in S : i <= j
\* no case matches: each case was compared with the values, none matched
NoMatch(n, root) ==
    /\ Resolved(n, root).exc = NoExc
    /\ Matching(n, root) = {}
    /\ \A i \in DOMAIN n.cases : CaseEvaluates(Resolved(n, root).values, n.cases[i])
\* a case matches, and the cases before it were compared with the values
SomeMatch(n, root) ==
    /\ Resolved(n, root).exc = NoExc
    /\ Matching(n, root) # {}
    /\ \A i \in 1..First(Matching(n, root)) : CaseEvaluates(Resolved(n, root).values, n.cases[i])

LabelOf(n, i) == IF n.labels # None /\ n.labels.items # <<>> THEN n.labels.items[i] ELSE None

\* the first matching case wins, and its label goes into the metadata
FirstMatchWins ==
    (last.op = "fill" /\ SomeMatch(last.proc_if, last.root)) =>
       /\ last.exc = NoExc
       /\ last.value = last.proc_if.then[First(Matching(last.proc_if, last.root))]
       /\ last.label = LabelOf(last.proc_if, First(Matching(last.proc_if, last.root)))
       /\ meta = add_label(last.before, last.label)

IsMissingCase(e, n) ==
    /\ IsProcGenError(e) /\ e.type = "NodeAnnotatedProcGenError"
    /\ e.user_label = Str(<<"MissingCase">>) /\ e.node = n

\* C6: when no case of a !ProcIf or !ProcIfLabels matches and there is no default, or,
\* for a !ProcIf, labels are declared without a default label, resolution raises
\* MissingCase carrying the node; no value is substituted and no label is added.
C6_MissingCase ==
    /\ ( /\ last.op = "fill" /\ NoMatch(last.proc_if, last.root)
         /\ \/ last.proc_if.default = None
            \/ last.proc_if.labels # None /\ last.proc_if.default_label = None ) =>
          /\ IsMissingCase(last.exc, last.proc_if)
          /\ pc = "raised" /\ exc = last.exc
          /\ variation = last.root /\ NodeAt(variation, last.at).value = None
          /\ meta = last.before
    /\ (last.op = "rule" /\ NoMatch(last.rule, last.root) /\ last.rule.default = None) =>
          /\ IsMissingCase(last.exc, last.rule)
          /\ pc = "raised" /\ exc = last.exc
          /\ variation = last.root
          /\ meta = last.before

\* a default exists, but labels are declared without a default label
C6_Witness ==
    /\ last.op = "fill" /\ NoMatch(last.proc_if, last.root)
    /\ last.proc_if.default # None /\ last.proc_if.labels # None
    /\ last.proc_if.default_label = None
    /\ pc = "raised" /\ IsMissingCase(exc, last.proc_if)

\* How a reference fares against a root when integer-looking segments index sequences
\* and the others name fields of mappings
RECURSIVE PathKind(_, _)
PathKind(v, keys) ==
    IF keys = <<>> THEN "found"
    ELSE IF v.cls \in {"str", "int", "float", "bool"} THEN "index into a scalar"
    ELSE IF v.cls = "list"
      THEN IF ~isdigit(Head(keys)) THEN "other"
           ELSE IF int(Head(keys)) >= Len(v.items) THEN "index out of range"
           ELSE PathKind(v.items[int(Head(keys)) + 1], Tail(keys))
    ELSE IF "keys" \in DOMAIN v
      THEN IF \E i \in DOMAIN v.keys : <<v.keys[i]>> = Head(keys)
             THEN PathKind(v.vals[CHOOSE i \in DOMAIN v.keys : <<v.keys[i]>> = Head(keys)],
                           Tail(keys))
             ELSE "missing field"
    ELSE "other"

RefKind(root, ref) ==
    IF find_item(Head(split(ref.v)), root, <<>>) = NotFound THEN "missing id"
    ELSE PathKind(NodeAt(root, find_item(Head(split(ref.v)), root, <<>>)), Tail(split(ref.v)))

IsVariableNotFound(e) ==
    /\ IsProcGenError(e)
    /\ e.user_label \in { Str(<<"IDNotFound">>), Str(<<"NonExistentVariable">>) }

\* C7: a reference to a missing id, a missing field, a list index out of range or a
\* path segment into a scalar fails with IDNotFound or NonExistentVariable.
C7_VariableNotFound ==
    (last.op = "fill" /\ last.proc_if.value.cls = "str"
       /\ RefKind(last.root, last.proc_if.value)
            \in {"missing id", "missing field", "index out of range", "index into a scalar"})
      => IsVariableNotFound(last.exc)

\* the mutable objects of a tree, each with the position it sits at; the value a
\* placeholder was filled with sits below the placeholder (slot 0)
RECURSIVE Objects(_, _)
Objects(v, path) ==
    (IF "obj" \in DOMAIN v THEN { <<path, v.obj>> } ELSE {})
      \cup (IF v.cls = "MutablePlaceholder" THEN Objects(v.value, path \o <<0>>) ELSE {})
      \cup UNION { Objects(Slots(v)[i], path \o <<i>>) : i \in DOMAIN Slots(v) }

\* an object the template holds: built when the document was read
IsTemplateObject(o) == Head(o) = Head(TemplateObj)

\* no object of a variation yielded is an object of the template or of another one
FreshAndUnshared ==
    /\ \A i \in DOMAIN yielded :
          \A po \in Objects(yielded[i].value, <<>>) : ~IsTemplateObject(po[2])
    /\ \A i, j \in DOMAIN yielded :
          i # j => Objects(yielded[i].value, <<>>) \cap Objects(yielded[j].value, <<>>) = {}

\* C12: no mutable object of a yielded variation (the value substituted for a !ProcIf
\* included) is an object of the template or of another yielded variation, and generate
\* changes nothing in the template but the removal of proc_meta.
C12_FreshVariations ==
    /\ []FreshAndUnshared
    /\ [][template' = IF pc = "start" THEN del_proc_meta(template) ELSE template]_vars

\* the labels the labelled nodes of template node t attach to the variation v of it,
\* in tree order
RECURSIVE ExpansionLabels(_, _)
ExpansionLabels(t, v) ==
    IF t.cls = "ProcListLabelled"
      THEN LET i == CHOOSE i \in DOMAIN t.options : Same(Field(t.options[i], "value"), v)
           IN << Field(t.options[i], "label") >>
    ELSE IF t.cls = "ProcVector3Scaled" /\ t.labels # None
      THEN LET base == IF t.base # None THEN t.base ELSE UnitVector
               i == CHOOSE i \in DOMAIN t.scales : Same(scale_vector3(base, t.scales[i]), v)
           IN << t.labels.items[i] >>
    ELSE IF Slots(t) # <<>> /\ Len(Slots(t)) = Len(Slots(v))
      THEN LET RECURSIVE from(_)
               from(i) == IF i > Len(Slots(t)) THEN <<>>
                          ELSE ExpansionLabels(Slots(t)[i], Slots(v)[i]) \o from(i + 1)
           IN from(1)
    ELSE <<>>

\* the labels of the placeholders of a variation, in depth-first order
RECURSIVE PlaceholderLabels(_)
PlaceholderLabels(v) ==
    IF v.cls = "MutablePlaceholder" THEN (IF v.label # None THEN <<v.label>> ELSE <<>>)
    ELSE LET RECURSIVE from(_)
             from(i) == IF i > Len(Slots(v)) THEN <<>>
                        ELSE PlaceholderLabels(Slots(v)[i]) \o from(i + 1)
         IN from(1)

\* the labels the rules give for a variation, in declared order
RECURSIVE RuleLabels(_, _)
RuleLabels(rules, root) ==
    IF rules = <<>> THEN <<>>
    ELSE LET rule == Head(rules)
             label == IF Matching(rule, root) # {}
                        THEN rule.labels.items[First(Matching(rule, root))]
                        ELSE rule.default
         IN (IF label # None THEN <<label>> ELSE <<>>) \o RuleLabels(Tail(rules), root)

\* the labels of every variation yielded are in the order stated
LabelsInOrder ==
    \A i \in DOMAIN yielded :
       yielded[i].meta.labels
         = ExpansionLabels(template, yielded[i].value)
             \o PlaceholderLabels(yielded[i].value)
             \o RuleLabels(template_meta, yielded[i].value)

\* the expansion pass failed on a document with a labelled node
LabelNotAttached ==
    /\ pc = "raised" /\ last.op = "none" /\ exc.type = "TypeError"
    /\ Contains(template, "ProcListLabelled") \/ Contains(template, "ProcVector3Scaled")

\* C13: the metadata of a variation holds the labels of its labelled !ProcListLabelled
\* and !ProcVector3Scaled nodes in tree order, then those of its !ProcIf nodes in the
\* order the walk meets them, then those of the !ProcIfLabels rules in declared order.
C13_LabelOrder == LabelsInOrder /\ ~LabelNotAttached

\* the field `name` of the item with id "bar" in a variation
BarName(root) == Field(NodeAt(root, find_item(<<"bar">>, root, <<>>)), "name")

\* the last step resolved a conditional on bar.name while bar.name was itself a
\* conditional not resolved yet
ChainResolved ==
    /\ last.op = "fill" /\ last.proc_if = OnBar /\ last.exc = NoExc
    /\ BarName(last.root).cls = "MutablePlaceholder" /\ ~is_filled(BarName(last.root))

\* C19: a conditional on a field that holds an unresolved conditional resolves that one
\* first, against the same root, and then selects the case its resolved value matches.
C19_ChainMatchesResolved ==
    ChainResolved =>
      /\ is_filled(BarName(variation))
      /\ resolve_condition(BarCond, last.root, 0).value = BarName(variation).value
      /\ last.value = IF matches(BarName(variation).value, OnBar.cases[1]) = "yes"
                        THEN OnBar.then[1] ELSE OnBar.default

\* what a variable holds once the placeholders are resolved
ValueOf(v) == IF v.cls = "MutablePlaceholder" /\ is_filled(v) THEN v.value ELSE v

\* the cases of a rule that match the values its variables hold in the variation
RuleMatching(rule, root) ==
    { i \in DOMAIN rule.cases :
        CaseMatches([j \in DOMAIN Resolved(rule, root).values |->
                       ValueOf(Resolved(rule, root).values[j])], rule.cases[i]) }

\* the label a rule is to give: that of the first matching case, or the default
RuleLabel(rule, root) ==
    IF RuleMatching(rule, root) # {} THEN rule.labels.items[First(RuleMatching(rule, root))]
    ELSE rule.default

\* the rules are applied one after the other, in declared order, once every placeholder
\* is resolved, and they leave the tree as it is
RulesInOrder ==
    /\ pc = "labels" => (~Unresolved(variation) /\ todo = SubSeq(template_meta, 1, Len(todo)))
    /\ last.op = "rule" =>
         /\ ~Unresolved(last.root)
         /\ variation = last.root
         /\ last.exc # NoExc => (pc = "raised" /\ exc = last.exc /\ meta = last.before)
         /\ last.exc = NoExc => Len(meta.labels) = Len(last.before.labels) + 1

\* every variation is yielded with all the rules applied
RulesOncePerVariation ==
    [][(pc = "labels" /\ pc' = "next") => todo = template_meta]_vars

\* a rule that appends a label appends that of its first matching case, or its default
RuleGivesItsLabel ==
    (last.op = "rule" /\ last.exc = NoExc) =>
       /\ RuleLabel(last.rule, last.root) # None
       /\ meta.labels = Append(last.before.labels, RuleLabel(last.rule, last.root))

\* C22: the !ProcIfLabels rules are applied once per variation, after every placeholder
\* of the variation is resolved, in declared order; each rule appends exactly one label,
\* that of the matching case or the default, or raises; the variation tree is unchanged.
C22_RulesAfterResolution == [](RulesInOrder /\ RuleGivesItsLabel) /\ RulesOncePerVariation

\* The placeholders that fill(root, path, depth) assigns, in the order of the
\* assignments: those forced while its variables are looked up, then its own.
RECURSIVE Assigned(_, _, _), AssignedOnPath(_, _, _, _, _), AssignedByAll(_, _, _)
Assigned(root, path, depth) ==
    IF depth > RecursionLimit THEN <<>>
    ELSE The({ AssignedByAll(IF isinstance(n.value, "list") THEN n.value.items ELSE <<n.value>>,
                             root, depth)
                 \o (IF fill(root, path, depth).exc = NoExc THEN <<path>> ELSE <<>>)
               : n \in { NodeAt(root, path).proc_if } })

AssignedByAll(variables, root, depth) ==
    IF variables = <<>> THEN <<>>
    ELSE The({
      (IF Head(variables).cls # "str" \/ item = << 0 - 1 >> \/ item = NotFound THEN <<>>
       ELSE AssignedOnPath(root, NodeAt(root, item), item,
                           Tail(split(Head(variables).v)), depth))
        \o (IF IsExc(v.value) THEN <<>> ELSE AssignedByAll(Tail(variables), v.root, depth))
      : item \in { IF Head(variables).cls = "str"
                     THEN find_item(Head(split(Head(variables).v)), root, <<>>)
                     ELSE NotFound },
        v \in { find_variable(Head(variables), root, depth) } })

AssignedOnPath(root, value, at, keys, depth) ==
    IF keys = <<>> THEN <<>>
    ELSE The({
      IF IsExc(g.value) THEN <<>>
      ELSE IF g.value.cls = "MutablePlaceholder" /\ g.value.value = None /\ g.at # Detached
        THEN The({ Assigned(root, g.at, depth + 1)
                     \o (IF f.exc # NoExc THEN <<>>
                         ELSE AssignedOnPath(f.root, NodeAt(f.root, g.at), g.at, Tail(keys), depth))
                   : f \in { fill(root, g.at, depth + 1) } })
      ELSE AssignedOnPath(root, g.value, g.at, Tail(keys), depth)
      : g \in { getitem_at(value, at, Key(Head(keys))) } })

\* the walk has just filled a placeholder: every placeholder assigned in that step
\* was unfilled before it, and is assigned once
FilledAtMostOnce ==
    last.op = "fill" =>
        \E done \in { Assigned(last.root, last.at, 0) } :
            /\ \A i, j \in DOMAIN done : done[i] = done[j] => i = j
            /\ \A i \in DOMAIN done : NodeAt(last.root, done[i]).value = None
            /\ last.exc = NoExc =>
                  /\ done # <<>> /\ done[Len(done)] = last.at
                  /\ \A i \in DOMAIN done : NodeAt(variation, done[i]).value # None

\* the walk has just met a placeholder: its label, if it has one, went to the
\* metadata once, and no label of a placeholder forced in that step did
LabelWhenReached ==
    /\ (last.op = "fill" /\ last.exc = NoExc) =>
          meta.labels = last.before.labels
                          \o (IF NodeAt(variation, last.at).label # None
                                THEN << NodeAt(variation, last.at).label >> ELSE <<>>)
    /\ last.op = "filled" =>
          /\ NodeAt(variation, last.at).value # None
          /\ meta.labels = last.before.labels
                             \o (IF NodeAt(variation, last.at).label # None
                                   THEN << NodeAt(variation, last.at).label >> ELSE <<>>)

\* a step of the walk on anything but a placeholder leaves variation and labels alone
OnlyPlaceholdersLabel ==
    (pc = "walk" /\ last'.op = "visit") => (meta' = meta /\ variation' = variation)

\* at the end of the walk the labels end with one label per labelled placeholder
EachLabelOnce ==
    (pc = "labels" /\ todo = <<>>) =>
        \E ls \in { PlaceholderLabels(variation) } :
            /\ Len(meta.labels) >= Len(ls)
            /\ SubSeq(meta.labels, Len(meta.labels) - Len(ls) + 1, Len(meta.labels)) = ls

RECURSIVE Entered(_, _, _), EnteredOnPath(_, _, _, _, _), EnteredByAll(_, _, _)
Entered(root, path, depth) ==
    << [at |-> path, depth |-> depth] >>
      \o (IF depth > RecursionLimit THEN <<>>
          ELSE The({ EnteredByAll(IF isinstance(n.value, "list") THEN n.value.items
                                  ELSE <<n.value>>, root, depth)
                     : n \in { NodeAt(root, path).proc_if } }))

EnteredByAll(variables, root, depth) ==
    IF variables = <<>> THEN <<>>
    ELSE The({
      (IF Head(variables).cls # "str" \/ item = << 0 - 1 >> \/ item = NotFound THEN <<>>
       ELSE EnteredOnPath(root, NodeAt(root, item), item,
                          Tail(split(Head(variables).v)), depth))
        \o (IF IsExc(v.value) THEN <<>> ELSE EnteredByAll(Tail(variables), v.root, depth))
      : item \in { IF Head(variables).cls = "str"
                     THEN find_item(Head(split(Head(variables).v)), root, <<>>)
                     ELSE NotFound },
        v \in { find_variable(Head(variables), root, depth) } })

EnteredOnPath(root, value, at, keys, depth) ==
    IF keys = <<>> THEN <<>>
    ELSE The({
      IF IsExc(g.value) THEN <<>>
      ELSE IF g.value.cls = "MutablePlaceholder" /\ g.value.value = None /\ g.at # Detached
        THEN The({ Entered(root, g.at, depth + 1)
                     \o (IF f.exc # NoExc THEN <<>>
                         ELSE EnteredOnPath(f.root, NodeAt(f.root, g.at), g.at, Tail(keys), depth))
                   : f \in { fill(root, g.at, depth + 1) } })
      ELSE EnteredOnPath(root, g.value, g.at, Tail(keys), depth)
      : g \in { getitem_at(value, at, Key(Head(keys))) } })

\* the placeholder a path of keys runs into, if any
RECURSIVE PlaceholderOnPath(_, _, _, _)
PlaceholderOnPath(root, value, at, keys) ==
    IF keys = <<>> THEN {}
    ELSE The({
      IF IsExc(g.value) \/ g.at = Detached THEN {}
      ELSE IF g.value.cls = "MutablePlaceholder" THEN { g.at }
      ELSE PlaceholderOnPath(root, g.value, g.at, Tail(keys))
      : g \in { getitem_at(value, at, Key(Head(keys))) } })

\* the placeholders the variables of the placeholder at p refer to
RefersTo(root, p) ==
    LET n == NodeAt(root, p).proc_if
        variables == IF isinstance(n.value, "list") THEN n.value.items ELSE <<n.value>>
    IN UNION { IF variables[i].cls # "str" THEN {}
               ELSE The({ IF item = << 0 - 1 >> \/ item = NotFound THEN {}
                          ELSE PlaceholderOnPath(root, NodeAt(root, item), item,
                                                 Tail(split(variables[i].v)))
                          : item \in { find_item(Head(split(variables[i].v)), root, <<>>) } })
               : i \in DOMAIN variables }

RECURSIVE ReachedFrom(_, _)
ReachedFrom(root, ps) ==
    LET more == ps \cup UNION { RefersTo(root, p) : p \in ps }
    IN IF more = ps THEN ps ELSE ReachedFrom(root, more)

OnCycle(root, p) == p \in ReachedFrom(root, RefersTo(root, p))
LeadsToCycle(root, p) == \E q \in ReachedFrom(root, {p}) : OnCycle(root, q)

\* the positions of the placeholders of a variation
RECURSIVE PlaceholdersOf(_, _)
PlaceholdersOf(v, at) ==
    IF v.cls = "MutablePlaceholder" THEN { at }
    ELSE UNION { PlaceholdersOf(Slots(v)[i], at \o <<i>>) : i \in DOMAIN Slots(v) }

Acyclic(root) == \A p \in PlaceholdersOf(root, <<>>) : ~OnCycle(root, p)

\* a fill that does not lead into a cycle enters no placeholder twice and is not
\* cut short by the depth of the calls
AcyclicFillReturns ==
    (last.op = "fill" /\ ~LeadsToCycle(last.root, last.at)) =>
        \E calls \in { Entered(last.root, last.at, 0) } :
            /\ \A i, j \in DOMAIN calls : calls[i].at = calls[j].at => i = j
            /\ \A i \in DOMAIN calls : calls[i].depth <= RecursionLimit

\* a fill that leads into a cycle enters a placeholder it has entered and not yet
\* filled, again and again until the depth of the calls ends it; it fills nothing
CyclicFillReenters ==
    (last.op = "fill" /\ LeadsToCycle(last.root, last.at)) =>
        \E calls \in { Entered(last.root, last.at, 0) } :
            /\ \E i, j \in DOMAIN calls :
                  i < j /\ calls[i].at = calls[j].at /\ NodeAt(last.root, calls[i].at).value = None
            /\ \E i \in DOMAIN calls : calls[i].depth > RecursionLimit
            /\ last.exc = BaseProcGenError("NonExistentVariable")
            /\ pc = "raised" /\ variation = last.root

\* the placeholders on a cycle are unresolved, whatever was done so far
CycleNeverResolved ==
    variation # None =>
        \A p \in PlaceholdersOf(variation, <<>>) :
            OnCycle(variation, p) => NodeAt(variation, p).value = None

\* the nodes walk_tree has still to call the callback on: a placeholder ends its branch
RECURSIVE ToWalk(_)
ToWalk(v) ==
    IF v.cls = "MutablePlaceholder" \/ get_node_handler(v) = NoHandler THEN 1
    ELSE LET childs == children(get_node_handler(v), v)
             RECURSIVE from(_)
             from(i) == IF i > Len(childs) THEN 0 ELSE ToWalk(childs[i]) + from(i + 1)
         IN 1 + from(1)

RECURSIVE Remaining(_, _)
Remaining(visits, root) ==
    IF visits = <<>> THEN 0
    ELSE ToWalk(IF Head(visits).at # Detached THEN NodeAt(root, Head(visits).at)
                ELSE Head(visits).node)
           + Remaining(Tail(visits), root)

\* while the walk is on there is a node to call the callback on, and each call leaves
\* fewer nodes to walk or ends the walk
WalkGetsShorter ==
    pc = "walk" =>
        /\ todo # <<>>
        /\ pc' = "walk" => Remaining(todo', variation') < Remaining(todo, variation)
        /\ pc' \in {"walk", "labels", "raised"}

\* C27: the pass over a variation whose !ProcIf references are acyclic terminates:
\* every fill returns without entering a placeholder twice, and every step of the
\* walk leaves fewer nodes to walk.  With a cycle (two !ProcIf on each other's
\* fields, or one on its own) fill re-enters fill on a placeholder not filled yet,
\* and no placeholder of the cycle is ever resolved.
C27_AcyclicPassTerminates ==
    /\ [](AcyclicFillReturns /\ CyclicFillReenters /\ CycleNeverResolved)
    /\ [][WalkGetsShorter]_vars

\* two conditionals on each other's fields: the walk's fill of the first entered the
\* second and the first again, and ended in NonExistentVariable with both unfilled
C27_Witness ==
    /\ template = Document(<<ItemFoo(OnBar), ItemBar(BarCond)>>)
    /\ last.op = "fill" /\ last.proc_if = OnBar
    /\ last.exc = BaseProcGenError("NonExistentVariable")
    /\ Len(Entered(last.root, last.at, 0)) > 2
    /\ Cardinality(PlaceholdersOf(variation, <<>>)) = 2
    /\ \A p \in PlaceholdersOf(variation, <<>>) :
          OnCycle(variation, p) /\ NodeAt(variation, p).value = None

\* the first unfilled placeholder the variables of the placeholder at p run into:
\* the one fill forces first, against the root as the walk left it
ForcedFirst(root, p) ==
    LET n == NodeAt(root, p).proc_if
        variables == IF isinstance(n.value, "list") THEN n.value.items ELSE <<n.value>>
        on(i) == IF variables[i].cls # "str" THEN {}
                 ELSE The({ IF item = << 0 - 1 >> \/ item = NotFound THEN {}
                            ELSE PlaceholderOnPath(root, NodeAt(root, item), item,
                                                   Tail(split(variables[i].v)))
                            : item \in { find_item(Head(split(variables[i].v)), root, <<>>) } })
        unfilled(i) == { q \in on(i) : NodeAt(root, q).value = None }
        firsts == { i \in DOMAIN variables :
                      unfilled(i) # {} /\ \A j \in 1..(i - 1) : on(j) = {} }
    IN UNION { unfilled(i) : i \in firsts }

\* the last step filled a placeholder whose variable runs into another one, and
\* filling that one fails with the exception e
NestedFillFailed(e) ==
    /\ last.op = "fill"
    /\ \E q \in ForcedFirst(last.root, last.at) : fill(last.root, q, 1).exc = e
    /\ e # NoExc

\* C28: when the fill forced on a placeholder during the lookup of a variable
\* fails, the caller gets BaseProcGenError NonExistentVariable, whatever the
\* exception of the nested conditional was: neither its kind nor its node is kept.
C28_NestedFailureIsNonExistentVariable ==
    \A q \in (IF last.op = "fill" THEN ForcedFirst(last.root, last.at) ELSE {}) :
        fill(last.root, q, 1).exc # NoExc =>
            /\ last.exc = BaseProcGenError("NonExistentVariable")
            /\ "node" \notin DOMAIN last.exc
            /\ pc = "raised" /\ exc = last.exc
            /\ variation = last.root

\* the conditional on bar.name forced the conditional of bar.name, which has no
\* matching case and no default: MissingCase there, NonExistentVariable here
C28_Witness ==
    /\ last.op = "fill" /\ last.proc_if = OnBar
    /\ NestedFillFailed(NodeAnnotatedProcGenError(BarNoCase, "MissingCase"))
    /\ exc = BaseProcGenError("NonExistentVariable")

----------------------------------------------------------------------------
(* Claims about the construction of the tags (checked under SpecTags) *)

IsLengthMismatch(e) ==
    /\ IsProcGenError(e) /\ e.type = "NodeAnnotatedProcGenError"
    /\ e.user_label = Str(<<"LengthMismatch">>)

\* `then`, or a `labels` list that is present, differs in length from `cases`
Mismatched(kwargs) ==
    \/ Len(kwargs.then) # Len(kwargs.cases)
    \/ kwargs.labels # None /\ Len(kwargs.labels.items) # Len(kwargs.cases)

\* C15: constructing a !ProcIf whose then list, or whose labels list when present (an
\* empty one included), differs in length from cases raises LengthMismatch; no such
\* node exists to be expanded.
C15_LengthMismatch ==
    /\ (res.op = "construct" /\ node.tag = "ProcIf" /\ Mismatched(node.kwargs))
          => IsLengthMismatch(res.out)
    /\ (res.op = "expand" /\ node.tag = "ProcIf") => ~Mismatched(node.kwargs)

----------------------------------------------------------------------------
(* Claims about the seed (checked under SpecSeed) *)

----------------------------------------------------------------------------
(* Claims about case matching (checked under SpecMatch) *)

\* case i is reached: every case before it was compared with the values and did not match
Reached(values, cases, i) ==
    \A k \in 1..(i - 1) : CaseEvaluates(values, cases[k]) /\ ~CaseMatches(values, cases[k])

WrongLength(values, case) == Len(SubValues(case)) # Len(values)

\* one comparison: a closed range holds the value, bounds included; a test value that
\* is not a number matches exactly the value equal to it
OneComparison ==
    (res.op = "matches" /\ res.out \in {"yes", "no"}) =>
       /\ res.v_case.cls = "Range" =>
             (res.out = "yes" <=> res.v_case.min <= NumVal(res.v_var)
                                   /\ NumVal(res.v_var) <= res.v_case.max)
       /\ res.v_case.cls = "str" => (res.out = "yes" <=> res.v_var = res.v_case)

\* the case selected is one whose every sub-value matches its variable, and a reached
\* case whose every sub-value matches is selected
AllSubValues ==
    res.op = "resolve" =>
       /\ res.out.idx # 0 => CaseMatches(node.values, node.cases[res.out.idx])
       /\ \A i \in DOMAIN node.cases :
            (Reached(node.values, node.cases, i) /\ CaseMatches(node.values, node.cases[i]))
              => res.out = [idx |-> i, exc |-> NoExc]
       /\ (\A i \in DOMAIN node.cases :
              CaseEvaluates(node.values, node.cases[i]) /\ ~CaseMatches(node.values, node.cases[i]))
            => res.out = [idx |-> 0, exc |-> NoExc]

\* C20 as stated: a case matches iff every positional sub-value matches its variable,
\* a closed range matching the values from min to max, bounds included, a non-numeric
\* test value the value equal to it; a case with a number of sub-values other than the
\* number of variables makes the resolution raise.
C20_WrongLengthRaises ==
    /\ OneComparison
    /\ AllSubValues
    /\ res.op = "resolve" =>
          ((\E i \in DOMAIN node.cases : WrongLength(node.values, node.cases[i]))
             => res.out.exc = Exc("ValueError", None))

\* C20: a case matches iff every positional sub-value matches its variable, a closed
\* range matching the values from min to max, bounds included, a non-numeric test value
\* the value equal to it; a case with a number of sub-values other than the number of
\* variables makes the resolution raise when it is reached, that is, unless a case
\* before it matched (or could not be compared).
C20_CaseMatching ==
    /\ OneComparison
    /\ AllSubValues
    /\ res.op = "resolve" =>
          \A i \in DOMAIN node.cases :
            (Reached(node.values, node.cases, i) /\ WrongLength(node.values, node.cases[i]))
              => res.out = [idx |-> 0, exc |-> Exc("ValueError", None)]

\* the first case does not match, the second has one sub-value for two variables
C20_Witness ==
    /\ res.op = "resolve"
    /\ node.values = <<Num(3), Str(<<"a">>)>>
    /\ node.cases = << List(<<Range(1, 2), Str(<<"a">>)>>), Num(1) >>
    /\ res.out = [idx |-> 0, exc |-> Exc("ValueError", None)]

----------------------------------------------------------------------------
(* One iteration of a structural node, pull by pull.  util.product is a       *)
(* generator: the generator for iterables[j..] opens the j-th child iterator  *)
(* when it is first resumed, and for each item it pulls from it creates a new *)
(* generator for iterables[j+1..].  frames holds, per child, where its        *)
(* current iterator instance stands and what has been pulled so far.          *)

MaxPulls == 4       \* next() calls on the iteration of one node

LazyChildren == { Num(1), TwoOptions, TwoScales, IfPlain, ProcList(<<>>),
                  ProcList(<<Num(1), Num(2), Vec>>) }

LazyNodes ==
    UNION { { List(c) : c \in [1..n -> LazyChildren] } : n \in 0..(MaxChildren + 1) }

\* the number of items one instance of the iterator of each child yields
ChildLens(n) == [j \in DOMAIN n.items |-> Len(TheRun(n.items[j]).items)]

NoChild == [st |-> "fresh", inst |-> 0, pos |-> 0, most |-> 0, hit |-> FALSE]

\* it(), then tuple(it) as itertools.product does: the instance is drained at once
open_child_eager(lv, len) ==
    [lv EXCEPT !.st = "running", !.inst = @ + 1, !.pos = 0,
               !.most = IF len > @ THEN len ELSE @, !.hit = TRUE]

\* it() if callable(it) else iter(it): a new instance, nothing pulled from it
open_child(lv, len) == [lv EXCEPT !.st = "running", !.inst = @ + 1, !.pos = 0]

\* one step of `for item in ...`: the next item, or the end of the instance
pull_child(lv, len) ==
    IF lv.pos < len
      THEN [lv EXCEPT !.pos = @ + 1, !.most = IF lv.pos + 1 > @ THEN lv.pos + 1 ELSE @]
      ELSE [lv EXCEPT !.st = "ended", !.hit = TRUE]

\* product(*iterables[1:]) is called: a generator of which nothing has run
new_inner(g, j) ==
    [unit |-> "fresh",
     lv |-> [i \in DOMAIN g.lv |-> IF i > j THEN [g.lv[i] EXCEPT !.st = "fresh"] ELSE g.lv[i]]]

\* next() on the generator of product(*iterables[j..]): the state after it,
\* and whether it yielded (ok) or ended
RECURSIVE resume(_, _, _), for_item(_, _, _)
resume(g, lens, j) ==
    IF j > Len(lens)
      THEN IF g.unit = "fresh"
             THEN [g |-> [g EXCEPT !.unit = "yielded"], ok |-> TRUE]
             ELSE [g |-> [g EXCEPT !.unit = "ended"], ok |-> FALSE]
    ELSE IF g.lv[j].st = "fresh"
      THEN for_item([g EXCEPT !.lv[j] = open_child(@, lens[j])], lens, j)
    ELSE IF g.lv[j].st = "running"
      THEN The({ IF r.ok THEN r ELSE for_item(r.g, lens, j) : r \in { resume(g, lens, j + 1) } })
    ELSE [g |-> g, ok |-> FALSE]

for_item(g, lens, j) ==
    The({ IF lv.st = "ended"
            THEN [g |-> [g EXCEPT !.lv[j] = lv], ok |-> FALSE]
            ELSE The({ IF r.ok THEN r ELSE for_item(r.g, lens, j)
                         : r \in { resume(new_inner([g EXCEPT !.lv[j] = lv], j), lens, j + 1) } })
          : lv \in { pull_child(g.lv[j], lens[j]) } })

\* next() on map(extract, product_generator): one next() on the product
Pull ==
    /\ frames.calls < MaxPulls
    /\ ~frames.done
    /\ \E r \in { resume(frames.g, ChildLens(node), 1) } :
          frames' = [g |-> r.g, calls |-> frames.calls + 1, done |-> ~r.ok,
                     k |-> IF r.ok THEN frames.k + 1 ELSE frames.k]
    /\ UNCHANGED <<opVars, genVars, seedVars, bulkVars, againVars>>

InitLazy ==
    /\ node \in LazyNodes /\ res = NoResult /\ GenIdle /\ sessions = <<>> /\ batch = <<>> /\ earlier = <<>>
    /\ frames = [g |-> [unit |-> "fresh", lv |-> [j \in DOMAIN node.items |-> NoChild]],
                 calls |-> 0, done |-> FALSE, k |-> 0]

NextLazy == Pull

SpecLazy == InitLazy /\ [][NextLazy]_vars

----------------------------------------------------------------------------
(* Claims about laziness (checked under SpecLazy) *)

\* where each child stands when an item has just been yielded: the tuple yielded
Positions == [j \in DOMAIN frames.g.lv |-> frames.g.lv[j].pos]

\* the pulls yield the items of the iteration of the node, in its order
PullsFollowIterate ==
    (frames.k >= 1 /\ ~frames.done) =>
        \E run \in { TheRun(node) } :
            /\ frames.k <= Len(run.items)
            /\ \A j \in DOMAIN node.items :
                  Same(run.items[frames.k].value.items[j],
                       TheRun(node.items[j]).items[Positions[j]].value)

AtMostK == \A j \in DOMAIN frames.g.lv : frames.g.lv[j].most <= frames.k
NoneExhausted == \A j \in DOMAIN frames.g.lv : ~frames.g.lv[j].hit
OnePullEach ==
    \A j \in DOMAIN frames.g.lv :
        frames.g.lv[j].inst = 1 /\ frames.g.lv[j].pos = 1 /\ frames.g.lv[j].most = 1

EmptyChildren == { j \in DOMAIN node.items : ChildLens(node)[j] = 0 }

\* C23 as stated: producing the first k items of a structural node's iteration
\* pulls at most k items from any single child iterator instance, no child is
\* exhausted before the first item is yielded, and the first item is produced
\* after exactly one pull from each child.
C23_LazyForEveryNode ==
    /\ AtMostK
    /\ frames.k = 0 => NoneExhausted
    /\ (frames.k = 1 /\ frames.calls = 1) => (OnePullEach /\ NoneExhausted)

\* C23: when every child of the structural node yields at least one item, the
\* first k items of its iteration pull at most k items from any single child
\* iterator instance, no child is exhausted before the first item is yielded,
\* and the first next() yields after exactly one pull from each child.  When a
\* child yields nothing, no item is produced at all: the first next() ends the
\* iteration, having drained every child before the first empty one and opened
\* none after it.
C23_LazyIteration ==
    /\ PullsFollowIterate
    /\ EmptyChildren = {} =>
          /\ AtMostK
          /\ frames.k = 0 => NoneExhausted
          /\ frames.calls >= 1 => frames.k >= 1
          /\ frames.calls = 1 => (OnePullEach /\ NoneExhausted)
    /\ (EmptyChildren # {} /\ frames.calls >= 1) =>
          \E e \in EmptyChildren :
              /\ \A j \in EmptyChildren : e <= j
              /\ frames.k = 0 /\ frames.done
              /\ \A j \in DOMAIN node.items :
                    /\ j < e => frames.g.lv[j].hit /\ frames.g.lv[j].most = ChildLens(node)[j]
                    /\ j > e => frames.g.lv[j].inst = 0

\* three items pulled from two children of two options each: the second child
\* is at its second instance, and no instance has given more than two items
C23_Witness ==
    /\ node = List(<<TwoOptions, TwoScales>>)
    /\ frames.k = 3 /\ frames.calls = 3
    /\ frames.g.lv[1].pos = 2 /\ frames.g.lv[2].inst = 2 /\ frames.g.lv[2].pos = 1
    /\ frames.g.lv[2].hit

----------------------------------------------------------------------------
(* cli/commands.py: sample_bulk.  batch.paths are the files iterdir yields, each *)
(* by what pg.read makes of it; the generator of the file being sampled is the   *)
(* one of generate above, pulled by consume_variations.                          *)

MaxTemplates == 2   \* files of one batch

\* a file yaml.load cannot make a document of: it raises e
Unreadable(e) == [cls |-> "unreadable", exc |-> e]

\* a document whose !ProcIf names an id no item has
NoSuchIdDoc ==
    Document(<<ItemFoo(Num(1)), ItemBar(ProcIf(Str(<<"nope", ".", "name">>), <<Num(1)>>,
                                               <<Num(7)>>, None, None, None))>>)

BulkDocs ==
    { Document(<<ItemFoo(Num(1)), ItemBar(BarCond)>>),
      DocumentWithMeta(<<ItemFoo(TwoOptions), ItemBar(BarCond)>>, <<Rule(None), NameRule>>),
      NoSuchIdDoc,
      Document(<<ItemFoo(ProcListLabelled(<<new_labelled_option(Str(<<"one">>), Num(1))>>)),
                 ItemBar(BarCond)>>),
      Unreadable(Exc("ScannerError", None)),
      Unreadable(ProcIf_init(SizeRef, <<Num(1)>>, <<>>, None, None, None)) }

\* pg.read(template_path)
read(doc) == IF doc.cls = "unreadable" THEN doc.exc ELSE doc

\* MutablePlaceholder.represent under yaml.dump: an unfilled placeholder raises
RECURSIVE dump_raises(_)
dump_raises(v) ==
    IF v.cls = "MutablePlaceholder"
      THEN ~is_filled(v) \/ dump_raises(v.value)
      ELSE \E i \in DOMAIN Slots(v) : dump_raises(Slots(v)[i])

\* the row of log.csv for an error, every error told as a user-facing one
log_row_error(path, e) == [path |-> path, text |-> <<"Error", e.user_label>>]

\* the row of log.csv for an error: lines 122-131
log_row(path, e) ==
    IF IsProcGenError(e)
      THEN [path |-> path, text |-> <<"Error", e.user_label>>]
      ELSE [path |-> path, text |-> <<"Unexpected error">>]

\* except Exception as e: error.txt is written, the row is logged, the loop goes on
except(b, path, e) ==
    [b EXCEPT !.i = path, !.pc = "loop",
              !.error_txt = Append(@, [path |-> path, e |-> e]),
              !.log = Append(@, log_row(path, e))]

GenReset ==
    /\ pulled' = 0 /\ full_iterator' = Run(<<>>, None) /\ variation' = None
    /\ meta' = MetaRec(<<>>) /\ todo' = <<>> /\ yielded' = <<>> /\ template_meta' = <<>>
    /\ last' = [op |-> "none"] /\ exc' = NoExc

\* for template_path in iterdir(...): read, count, generate (lines 94-108)
BulkNext ==
    /\ batch.pc = "loop"
    /\ batch.i < Len(batch.paths)
    /\ \E path \in { batch.i + 1 } : \E t \in { read(batch.paths[path]) } :
          IF IsExc(t)
            THEN batch' = except(batch, path, t) /\ UNCHANGED genVars
          ELSE IF count_recursive(t) = CountError
            THEN batch' = except(batch, path, Exc("ValueError", None)) /\ UNCHANGED genVars
          ELSE /\ batch' = [batch EXCEPT !.i = path, !.pc = "running",
                                         !.nvars = count_recursive(t)]
               /\ template' = t /\ mode' = "sample" /\ amount' = batch.amount
               /\ pc' = "start" /\ GenReset
    /\ UNCHANGED <<opVars, seedVars, lazyVars, againVars>>

\* the file consume_variations has just written cannot be dumped
DumpRaises == pc = "next" /\ yielded # <<>> /\ dump_raises(yielded[Len(yielded)].value)

\* consume_variations returned: the Success row (lines 110-112)
BulkDone ==
    /\ batch.pc = "running"
    /\ pc = "done"
    /\ batch' = [batch EXCEPT !.pc = "loop",
                   !.log = Append(@, [path |-> batch.i,
                                      text |-> <<"Success", batch.amount, batch.nvars>>])]
    /\ UNCHANGED <<opVars, genVars, seedVars, lazyVars, againVars>>

\* an exception left consume_variations (lines 114-131)
BulkExcept ==
    /\ batch.pc = "running"
    /\ pc = "raised" \/ DumpRaises
    /\ batch' = except(batch, batch.i, IF pc = "raised" THEN exc ELSE Exc("ValueError", None))
    /\ UNCHANGED <<opVars, genVars, seedVars, lazyVars, againVars>>

\* log.close()
BulkClose ==
    /\ batch.pc = "loop"
    /\ batch.i = Len(batch.paths)
    /\ batch' = [batch EXCEPT !.pc = "closed"]
    /\ UNCHANGED <<opVars, genVars, seedVars, lazyVars, againVars>>

\* one pull of consume_variations on the generator
BulkPull == batch.pc = "running" /\ ~DumpRaises /\ Next

InitBulk ==
    /\ node = None /\ res = NoResult /\ GenIdle /\ sessions = <<>> /\ frames = <<>> /\ earlier = <<>>
    /\ \E n \in 0..MaxTemplates : \E paths \in [1..n -> BulkDocs] : \E a \in { MaxGenerate } :
          batch = [paths |-> paths, amount |-> a, i |-> 0, pc |-> "loop", nvars |-> 0,
                   log |-> <<>>, error_txt |-> <<>>]

NextBulk == BulkNext \/ BulkPull \/ BulkDone \/ BulkExcept \/ BulkClose

SpecBulk == InitBulk /\ [][NextBulk]_vars

----------------------------------------------------------------------------
(* Claims about bulk sampling (checked under SpecBulk) *)

\* the error.txt written for the path-th file
ErrorsOf(path) == { batch.error_txt[x].e : x \in { y \in DOMAIN batch.error_txt :
                                                     batch.error_txt[y].path = path } }

\* one row per file visited, in the order of the visit
OneRowPerTemplate ==
    /\ Len(batch.log) = IF batch.pc = "running" THEN batch.i - 1 ELSE batch.i
    /\ \A j \in DOMAIN batch.log : batch.log[j].path = j
    /\ batch.pc = "closed" => Len(batch.log) = Len(batch.paths)

\* what the row says is what happened to the file
RowsTellTheFailure ==
    \A j \in DOMAIN batch.log :
        \E errs \in { ErrorsOf(j) } :
            /\ Cardinality(errs) <= 1
            /\ errs = {} => batch.log[j].text[1] = "Success"
            /\ \A e \in errs :
                  IF IsProcGenError(e)
                    THEN batch.log[j].text = <<"Error", e.user_label>> /\ e.user_label # None
                    ELSE batch.log[j].text = <<"Unexpected error">>

\* an exception that leaves the generator is the one written and logged, the loop
\* goes on after it, and Success is logged only for `amount` variations written
FailureIsCaught ==
    (batch.pc = "running" /\ batch'.pc # "running") =>
        /\ batch'.pc = "loop"
        /\ IF pc = "raised"
             THEN ErrorsOf(batch.i)' = { exc }
             ELSE pc = "done" /\ ErrorsOf(batch.i)' = {} /\ Len(yielded) = batch.amount

\* a step that writes a row writes one, for the file visited, and leaves the loop
\* at the next file
LoopGoesOn ==
    Len(batch'.log) # Len(batch.log) =>
        /\ Len(batch'.log) = Len(batch.log) + 1
        /\ batch'.i = Len(batch'.log)
        /\ batch'.pc = "loop"
        /\ batch'.paths = batch.paths

\* C24: in sample_bulk a ProcGenError on one template is caught, written to that
\* template's error.txt and logged with its user label, and the loop goes on with
\* the next template; any other exception is written and logged as "Unexpected
\* error" (and the loop goes on as well); exactly one row of log.csv is written per
\* template visited.
C24_BulkErrors ==
    /\ [](OneRowPerTemplate /\ RowsTellTheFailure)
    /\ [][FailureIsCaught /\ LoopGoesOn]_vars

\* a batch of two files: the first failed with IDNotFound, the second was
\* unreadable; both have their row and their error.txt, and the log is closed
C24_Witness ==
    /\ batch.pc = "closed"
    /\ Len(batch.log) = 2
    /\ batch.paths[1] = NoSuchIdDoc
    /\ batch.log[1].text = <<"Error", Str(<<"IDNotFound">>)>>
    /\ batch.log[2].text = <<"Unexpected error">>
    /\ Len(batch.error_txt) = 2
    /\ yielded = <<>>

----------------------------------------------------------------------------
(* generate called again on the template object an earlier call was given *)

MaxAgain == 1       \* further generate calls on the one template object

\* generate(mode, template, amount) once more: a new generator, nothing of it run;
\* the generator made before is left as it stands
GenAgain ==
    /\ pc \in {"start", "done", "raised"}
    /\ Len(earlier) < MaxAgain
    /\ earlier' = Append(earlier, [pc |-> pc, yielded |-> yielded,
                                   template_meta |-> template_meta])
    /\ pc' = "start" /\ GenReset
    /\ UNCHANGED <<opVars, seedVars, lazyVars, bulkVars, template, mode, amount>>

InitAgain ==
    /\ Init
    /\ get_proc_meta(template) # <<>>
    /\ amount >= 1

NextAgain == Next \/ GenAgain

SpecAgain == InitAgain /\ [][NextAgain]_vars

----------------------------------------------------------------------------
(* Claims about a second generate on one template (checked under SpecAgain) *)

\* some generator made on this template object was pulled
PulledBefore == \E i \in DOMAIN earlier : earlier[i].pc # "start"

\* the labels of the proc_labels rules of the document
LabelsOfRules == { Str(<<"one">>), Str(<<"other">>), Str(<<"named">>), Str(<<"isT1">>) }

\* proc_meta is on the template until a generator is pulled, and never after
StrippedOnFirstPull ==
    /\ (pc = "start" /\ ~PulledBefore) => get_proc_meta(template) # <<>>
    /\ (pc # "start" \/ PulledBefore) => ~HasKey(template, "proc_meta")
    /\ (pc # "start" /\ ~PulledBefore) => template_meta # <<>>

\* a generator made after the first pull has no rule and applies none
NoRuleAfterwards ==
    (pc # "start" /\ PulledBefore) =>
        /\ template_meta = <<>>
        /\ last.op # "rule"
        /\ \A i \in DOMAIN yielded : \A j \in DOMAIN yielded[i].meta.labels :
              yielded[i].meta.labels[j] \notin LabelsOfRules

\* the same variation got one label per rule from the first generator, and gets
\* none of them from the second
LabelsDependOnTheCall ==
    PulledBefore =>
        \A p \in { earlier[1].yielded[i] : i \in DOMAIN earlier[1].yielded } :
        \A q \in { yielded[i] : i \in DOMAIN yielded } :
            Same(p.value, q.value) =>
                /\ Len(p.meta.labels) = Len(q.meta.labels) + Len(earlier[1].template_meta)
                /\ q.meta.labels = SubSeq(p.meta.labels, 1, Len(q.meta.labels))
                /\ p.meta.labels # q.meta.labels

\* C25: generate deletes proc_meta from the template object on its first pull,
\* so a generate called on that object afterwards finds no proc_labels rule and
\* applies none: a variation that got the rules' labels from the first call gets
\* none of them from the second.
C25_SecondGenerateHasNoRules ==
    StrippedOnFirstPull /\ NoRuleAfterwards /\ LabelsDependOnTheCall

\* the first generate yielded a variation labelled L1, one, named; the second
\* yields the same variation labelled L1 only
C25_Witness ==
    /\ earlier # <<>> /\ earlier[1].pc = "done"
    /\ Len(earlier[1].yielded) = 1 /\ Len(yielded) = 1
    /\ Same(earlier[1].yielded[1].value, yielded[1].value)
    /\ Len(earlier[1].yielded[1].meta.labels) = 3
    /\ Len(yielded[1].meta.labels) = 1
    /\ earlier[1].yielded[1].meta.labels[1] = yielded[1].meta.labels[1]

----------------------------------------------------------------------------
(* handlers.py: ConditionResolver.__find_item called on a tree *)

FooA == ItemFoo(Num(1))
FooB == ItemFoo(Num(2))
BarT == ItemBar(Str(<<"t", "1">>))
\* a placeholder after fill_placeholder assigned it the value v
FilledWith(v) == [MutablePlaceholder(OnBar) EXCEPT !.value = v]

\* the entries of an item list: items with and without id, items inside plain
\* containers, inside an item, inside a !ProcList and inside a placeholder
LookupParts ==
    { FooA, FooB, BarT,
      List(<<FooB>>), Dict(<<"k">>, <<FooA>>),
      ItemBar(FooA), ItemBaz(FooB), ItemBaz(ProcList(<<FooA>>)),
      ProcList(<<FooA>>), ProcList(<<BarT, FooB>>),
      FilledWith(FooA), FilledWith(List(<<BarT>>)), MutablePlaceholder(OnBar) }

LookupIds == { <<"foo">>, <<"bar">>, <<"nope">> }

LookupCalls ==
    { [cls |-> "find_item", root |-> Document(items), item_id |-> id]
        : items \in SeqsUpTo(LookupParts, MaxChildren), id \in LookupIds }

OpFind ==
    /\ node.cls = "find_item"
    /\ res' = [op |-> "find_item", out |-> find_item(node.item_id, node.root, <<>>)]
    /\ UNCHANGED <<node, genVars, seedVars, lazyVars, bulkVars, againVars>>

InitFind == node \in LookupCalls /\ res = NoResult /\ GenIdle /\ NoRuns

NextFind == OpFind

SpecFind == InitFind /\ [][NextFind]_vars

----------------------------------------------------------------------------
(* Claims about the lookup of an item (checked under SpecFind) *)

\* the paths of v in depth-first pre-order, children in declared order; nothing
\* below a placeholder or below a custom tag that is not an AnimalAI tag
RECURSIVE PreOrder(_, _)
RECURSIVE PreOrderFrom(_, _, _)
PreOrderFrom(v, at, i) ==
    IF i > Len(Slots(v)) THEN <<>>
    ELSE PreOrder(Slots(v)[i], at \o <<i>>) \o PreOrderFrom(v, at, i + 1)
PreOrder(v, at) ==
    IF v.cls = "MutablePlaceholder" \/ ("CustomTag" \in Bases(v.cls) /\ "AnimalAITag" \notin Bases(v.cls))
      THEN << at >>
      ELSE << at >> \o PreOrderFrom(v, at, 1)

\* a fixed-schema AnimalAI mapping whose id is the one asked for
CarriesId(v, id) ==
    /\ {"AnimalAITag", "CustomMappingTag"} \subseteq Bases(v.cls)
    /\ "keys" \in DOMAIN v
    /\ \E i \in DOMAIN v.keys : v.keys[i] = "id" /\ v.vals[i] = Str(id)

\* v, or something stored anywhere inside v, carries the id
RECURSIVE HoldsId(_, _)
HoldsId(v, id) ==
    \/ CarriesId(v, id)
    \/ \E f \in DOMAIN v :
          \/ f \in SeqFields /\ \E i \in DOMAIN v[f] : HoldsId(v[f][i], id)
          \/ f \in NodeFields /\ v[f] # None /\ HoldsId(v[f], id)

\* the places of the pre-order that carry the id, in that order
Carriers(root, id) ==
    SelectSeq(PreOrder(root, <<>>), LAMBDA p : CarriesId(NodeAt(root, p), id))

\* C29: the lookup returns the first node, in depth-first pre-order with the
\* children in declared order, that is an AnimalAI mapping carrying the id; it
\* enters no placeholder, filled or not, and no custom tag that is not an AnimalAI
\* tag, so an id carried only in there is not found; of two nodes with one id it
\* returns the earlier.
C29_LookupIsFirstInPreOrder ==
    res.op = "find_item" =>
        \E found \in { Carriers(node.root, node.item_id) } :
            /\ found = <<>> => res.out = NotFound
            /\ found # <<>> => res.out = Head(found)

\* an id carried twice was resolved to the earlier node, and an id carried only
\* inside a placeholder or a !ProcList was not found
C29_Witness ==
    /\ res.op = "find_item"
    /\ \/ Len(Carriers(node.root, node.item_id)) > 1 /\ res.out # NotFound
       \/ /\ HoldsId(node.root, node.item_id)
          /\ \E i \in DOMAIN Field(Field(node.root, "arenas").vals[1], "items").items :
                Field(Field(node.root, "arenas").vals[1], "items").items[i].cls = "MutablePlaceholder"
          /\ res.out = NotFound

----------------------------------------------------------------------------
(* Choice lists whose options hold tags, alone and inside a document *)

\* option values: a scalar, !Proc tags, a list holding a !Proc tag
NestedValues == { Num(1), TwoOptions, IfPlain, ProcColor(1), List(<<TwoOptions, Num(1)>>) }
NestedLabelled == { new_labelled_option(Str(<<"a">>), TwoOptions),
                    new_labelled_option(Str(<<"b">>), IfPlain),
                    new_labelled_option(Str(<<"c">>), Num(1)) }
NestedLists == { ProcList(o) : o \in SeqsUpTo(NestedValues, MaxOptions) }
                  \cup { ProcListLabelled(o) : o \in SeqsUpTo(NestedLabelled, MaxOptions) }

\* !ProcIf on the name of item foo ("a"): its then and default values are tags
ThenTag == ProcIf(NameRef, <<Str(<<"a">>)>>, <<TwoOptions>>, IfPlain, None, None)
DefaultTag == ProcIf(NameRef, <<Str(<<"b">>)>>, <<TwoOptions>>, List(<<IfPlain>>), None, None)

NestedTemplates ==
    { Document(<<ItemFoo(n), ItemBar(c)>>)
        : n \in { TwoOptions, ProcList(<<TwoOptions, IfPlain>>),
                  ProcList(<<List(<<TwoOptions, Num(1)>>)>>),
                  ProcListLabelled(<<new_labelled_option(Str(<<"a">>), TwoOptions)>>) },
          c \in { ThenTag, DefaultTag } }
      \cup { DocumentWithMeta(<<ItemFoo(ProcList(<<IfPlain, TwoOptions>>)), ItemBar(ThenTag)>>,
                              <<NameRule>>) }

\* either the operations on one choice list, or generate on one document
InitNested ==
    \/ node \in NestedLists /\ res = NoResult /\ GenIdle /\ NoRuns
    \/ /\ node = None /\ res = NoResult
       /\ template \in NestedTemplates
       /\ mode \in {"sample", "exhaustive"}
       /\ amount = MaxGenerate
       /\ pc = "start" /\ pulled = 0 /\ full_iterator = Run(<<>>, None)
       /\ variation = None /\ meta = MetaRec(<<>>) /\ todo = <<>> /\ yielded = <<>>
       /\ template_meta = <<>> /\ last = [op |-> "none"] /\ exc = NoExc
       /\ NoRuns

OpCountOptions == node # None /\ OpCount
OpIterateOptions == node # None /\ OpIterate
OpSampleOptions == node # None /\ OpSample

NextNested == OpCountOptions \/ OpIterateOptions \/ OpSampleOptions \/ Next

SpecNested == InitNested /\ [][NextNested]_vars

----------------------------------------------------------------------------
(* Claims about options and substituted values (checked under SpecNested) *)

\* what the i-th option of a choice list stands for
Chosen(n, i) == IF n.cls = "ProcListLabelled" THEN Field(n.options[i], "value") ELSE n.options[i]

\* a copy of the option: the same content in objects that are not the template's
CopyOf(v, option) ==
    /\ ~IsExc(v)
    /\ Same(v, option)
    /\ \A po \in Objects(v, <<>>) : ~IsTemplateObject(po[2])

\* the entries of the item list of a document
ItemsOf(doc) == Field(Field(doc, "arenas").vals[1], "items").items
\* the first size of the first item
SizeOf(doc) == Field(ItemsOf(doc)[1], "sizes").items[1]

\* count is the number of options, whatever they hold
CountsOptions == res.op = "count" => res.n = Len(node.options)

\* sample gives a copy of one option, iterate a copy of each in turn
SampleIsAnOption ==
    res.op = "sample" => \E i \in DOMAIN node.options : CopyOf(res.out.value, Chosen(node, i))
IterateGivesTheOptions ==
    res.op = "iterate" =>
        /\ res.run.exc = None
        /\ Len(res.run.items) = Len(node.options)
        /\ \A i \in DOMAIN node.options : CopyOf(res.run.items[i].value, Chosen(node, i))

\* in a variation the size of item foo is one option of the template's list as
\* it stands there: a tag inside it is still the tag
OptionUnexpanded(v) ==
    \E n \in { SizeOf(template) } : \E i \in DOMAIN n.options : CopyOf(SizeOf(v), Chosen(n, i))
VariationsKeepTheTags ==
    template # None =>
        /\ \A k \in DOMAIN yielded : OptionUnexpanded(yielded[k].value)
        /\ pc \in {"walk", "labels"} => OptionUnexpanded(variation)

\* a fill has put the very then value, or the default, into the placeholder
SubstitutedVerbatim ==
    (last.op = "fill" /\ last.exc = NoExc) =>
        \E ph \in { NodeAt(variation, last.at) } :
            /\ ph.value \in { ph.proc_if.then[i] : i \in DOMAIN ph.proc_if.then }
                              \cup { ph.proc_if.default }
            /\ ph.value # None

\* C30: !ProcList and !ProcListLabelled do not expand their options: iterate and
\* sample return a deep copy of the chosen option as it is, count is the number of
\* options whatever tags an option holds, and those tags are still tags (not
\* placeholders) in the variation produced; the then or default value a !ProcIf
\* substitutes is inserted as it is.
C30_OptionsAndThenVerbatim ==
    /\ CountsOptions
    /\ SampleIsAnOption
    /\ IterateGivesTheOptions
    /\ VariationsKeepTheTags
    /\ SubstitutedVerbatim

\* the same for the choice list without labels only
C30_PlainListVerbatim ==
    /\ CountsOptions
    /\ node.cls = "ProcList" => (SampleIsAnOption /\ IterateGivesTheOptions)
    /\ VariationsKeepTheTags
    /\ SubstitutedVerbatim

====
